---------------------------- MODULE Spec2Model ----------------------------
(***************************************************************************)
(* A model of the Kademlia node of labs/kademlia: the value API (Put, Get, *)
(* Join), the iterative lookups, replication and republish, the UDP        *)
(* request/response layer and the routing table.                           *)
(*                                                                         *)
(* Identifiers are IDLength bytes wide (20 in the program), written as     *)
(* natural numbers below 2^(8*IDLength); distances are compared as         *)
(* big-endian integers, which is the bytewise order of KademliaID.Less.    *)
(* A node's address (host:port) is the node's index; 0 is the empty        *)
(* address "".                                                             *)
(*                                                                         *)
(* Three parts look at one node more closely, each with variables of its   *)
(* own: RoutingTable.AddContact phase by phase with overlapping callers    *)
(* (SpecTable), the order of lock, inflight and datagram operations of     *)
(* every goroutine (SpecIO), and the value store as a map of slices over a *)
(* heap of buffers (SpecBuffers).                                          *)
(***************************************************************************)
EXTENDS Naturals, Sequences, FiniteSets, TLC

--------------------------------------------------------------------------
(* Bounds of the model *)

\* Width of an identifier in bytes (the program uses 20).
IDLength == 1

\* Number of node processes.
NumNodes == 3

\* API calls (Join, Put, Get, Close) and foreign datagrams over all nodes
\* together.
MaxOps == 4

\* Threads that are inside a call at the same time, over all nodes.
MaxActive == 1

\* Nodes that make calls in the specification with failures.
MaxCallers == 2

\* Datagrams of senders that are not nodes.
MaxForeign == 1

--------------------------------------------------------------------------
(* Program constants *)

bucketSize == 20

alpha == 3

replCap == 32

LookupWindow == 1024

--------------------------------------------------------------------------
(* Identifiers: kademliaid.go *)

\* F applied to the value of v.  An argument of an operator is evaluated
\* anew at each of its uses; the variable bound here holds a value.
ApplyTo(v, F(_)) == CHOOSE r \in {F(x) : x \in {v}} : TRUE

IDBits == IDLength * 8

RECURSIVE Pow2(_)
Pow2(n) == IF n = 0 THEN 1 ELSE 2 * Pow2(n - 1)

IDSpace == Pow2(IDBits)

RECURSIVE XorN(_, _, _)
XorN(a, b, n) ==
    IF n = 0 THEN 0
    ELSE (((a % 2) + (b % 2)) % 2) + 2 * XorN(a \div 2, b \div 2, n - 1)

\* KademliaID.CalcDistance: bytewise XOR.
CalcDistance(a, b) == XorN(a, b, IDBits)

\* KademliaID.Less: lexicographic on the bytes, most significant first.
Less(a, b) == a < b

\* KademliaID.Equals
Equals(a, b) == a = b

--------------------------------------------------------------------------
(* Hex strings: encoding/hex as used by the program.  A string is a       *)
(* sequence of one-character strings.                                      *)

HexDigits == <<"0", "1", "2", "3", "4", "5", "6", "7",
               "8", "9", "a", "b", "c", "d", "e", "f">>

UpperDigits == <<"A", "B", "C", "D", "E", "F">>

\* The value of a hex character, or 16 for a character that is not one.
HexVal(ch) ==
    IF \E i \in 1..16 : HexDigits[i] = ch
    THEN (CHOOSE i \in 1..16 : HexDigits[i] = ch) - 1
    ELSE IF \E i \in 1..6 : UpperDigits[i] = ch
         THEN (CHOOSE i \in 1..6 : UpperDigits[i] = ch) + 9
         ELSE 16

RECURSIVE Pow16(_)
Pow16(n) == IF n = 0 THEN 1 ELSE 16 * Pow16(n - 1)

\* hex.EncodeToString of an IDLength-byte identifier: lowercase digits.
EncodeToString(id) ==
    [i \in 1..(2 * IDLength) |->
        HexDigits[((id \div Pow16(2 * IDLength - i)) % 16) + 1]]

\* hex.DecodeString succeeds: even length and only hex characters.
DecodeOK(s) ==
    /\ Len(s) % 2 = 0
    /\ \A i \in 1..Len(s) : HexVal(s[i]) < 16

\* The number of leading bytes hex.DecodeString decodes before it meets a
\* character that is not a hex digit or the end of the string.
RECURSIVE DecodedBytes(_, _)
DecodedBytes(s, j) ==
    IF 2 * j + 2 <= Len(s) /\ HexVal(s[2 * j + 1]) < 16
                           /\ HexVal(s[2 * j + 2]) < 16
    THEN DecodedBytes(s, j + 1)
    ELSE j

RECURSIVE DecodeNum(_, _, _)
DecodeNum(s, j, n) ==
    IF j >= IDLength THEN 0
    ELSE (IF j < n THEN 16 * HexVal(s[2 * j + 1]) + HexVal(s[2 * j + 2])
          ELSE 0) * Pow2(8 * (IDLength - 1 - j)) + DecodeNum(s, j + 1, n)

\* The bytes hex.DecodeString returns copied into a KademliaID
\* (copy(id[:], b)): at most IDLength bytes, the rest zero.
DecodeToID(s) == DecodeNum(s, 0, DecodedBytes(s, 0))

--------------------------------------------------------------------------
(* Values and content hash: Kademlia.keyFromData *)

\* The byte strings the API is called with: the empty string and "h".
Values == { <<>>, <<104>> }

\* The leading bytes of the SHA-1 digests of the modelled values.
Digest(v) ==
    IF v = <<>> THEN <<218, 57, 163, 238>> ELSE <<39, 213, 72, 46>>

RECURSIVE BytesToNum(_, _)
BytesToNum(bs, n) ==
    IF n = 0 THEN 0 ELSE 256 * BytesToNum(bs, n - 1) + bs[n]

\* sha1.Sum truncated to the width of an identifier.
Sha1(v) == BytesToNum(Digest(v), IDLength)

\* keyFromData: (hex key, key id) of a value.
keyFromData(v) == [keyHex |-> EncodeToString(Sha1(v)), id |-> Sha1(v)]

--------------------------------------------------------------------------
(* Contacts, buckets and the routing table: bucket.go, routingtable.go *)

\* The nil *KademliaID.
NoID == IDSpace

Node == 1..NumNodes

\* The empty address "".
NoAddr == 0

NewContact(id, addr) == [id |-> id, addr |-> addr]

\* The 160-bit identifiers the nodes are started with (the -id flag).
NodeIds == <<37, 74, 148, 233, 19, 120>>

NodeId(n) == NodeIds[n]

\* Kademlia.me
Me(n) == NewContact(NodeId(n), n)

\* newBucket: an empty list and an empty replacement cache.
newBucket == [list |-> <<>>, repl |-> <<>>]

\* NewRoutingTable: IDLength*8 empty buckets.
NewRoutingTable == [i \in 0..(IDBits - 1) |-> newBucket]

RECURSIVE FirstSetBit(_, _)
FirstSetBit(d, i) ==
    IF i >= IDBits THEN IDBits - 1
    ELSE IF (d \div Pow2(IDBits - 1 - i)) % 2 = 1 THEN i
         ELSE FirstSetBit(d, i + 1)

\* RoutingTable.getBucketIndex: the position of the first 1 bit of the
\* distance to the owner, the last bucket when the distance is zero.
getBucketIndex(me, id) ==
    ApplyTo(CalcDistance(id, me), LAMBDA distance : FirstSetBit(distance, 0))

\* The position in list l of the entry with identifier id, 0 when absent.
IndexOfID(l, id) ==
    IF \E i \in 1..Len(l) : Equals(l[i].id, id)
    THEN CHOOSE i \in 1..Len(l) : Equals(l[i].id, id)
    ELSE 0

RemoveAt(l, i) == [j \in 1..(Len(l) - 1) |-> IF j < i THEN l[j] ELSE l[j + 1]]

\* list.MoveToFront of the element at position i.
MoveToFront(l, i) == <<l[i]>> \o RemoveAt(l, i)

\* list.PushFront
PushFront(l, c) == <<c>> \o l

\* bucket.addReplacement: no duplicate identifier, the oldest entry dropped
\* when the cache is full.
addReplacement(repl, c) ==
    IF \E i \in 1..Len(repl) : Equals(repl[i].id, c.id) THEN repl
    ELSE IF Len(repl) >= replCap
         THEN SubSeq(repl, 2, replCap) \o <<c>>
         ELSE repl \o <<c>>

\* RoutingTable.AddContact run without interleaving; pingFunc is the set of
\* addresses whose contact answers the liveness probe, asked about the
\* least-recently-seen contact of a full bucket.
AddContact(t, me, c, pingFunc) ==
    IF c.id = NoID \/ Equals(me, c.id) THEN t
    ELSE
      LET bucketIndex == getBucketIndex(me, c.id)
          b == t[bucketIndex]
          at == IndexOfID(b.list, c.id)
      IN  IF at # 0
          THEN [t EXCEPT ![bucketIndex].list = MoveToFront(b.list, at)]
          ELSE IF Len(b.list) < bucketSize
          THEN [t EXCEPT ![bucketIndex].list = PushFront(b.list, c)]
          ELSE
            LET lru == b.list[Len(b.list)]
                lruAt == IndexOfID(b.list, lru.id)
            IN  IF lru.addr \notin pingFunc
                THEN [t EXCEPT ![bucketIndex].list =
                                  PushFront(RemoveAt(b.list, lruAt), c)]
                ELSE [t EXCEPT ![bucketIndex].list = MoveToFront(b.list, lruAt),
                               ![bucketIndex].repl = addReplacement(b.repl, c)]

\* The contacts gathered by FindClosestContacts before sorting: the target's
\* bucket, then the buckets at index -i and +i while fewer than count are
\* collected.
RECURSIVE Gather(_, _, _, _, _)
Gather(t, bucketIndex, i, count, candidates) ==
    IF ~((bucketIndex - i >= 0 \/ bucketIndex + i < IDBits)
         /\ Len(candidates) < count)
    THEN candidates
    ELSE LET lo == IF bucketIndex - i >= 0
                   THEN candidates \o t[bucketIndex - i].list
                   ELSE candidates
             hi == IF bucketIndex + i < IDBits
                   THEN lo \o t[bucketIndex + i].list
                   ELSE lo
         IN  Gather(t, bucketIndex, i + 1, count, hi)

\* ContactCandidates.Sort: ascending distance to the target; entries at the
\* same distance keep their order.
SortByDistance(l, target) ==
    ApplyTo([i \in 1..Len(l) |-> CalcDistance(l[i].id, target)],
            LAMBDA distance :
      LET before(i, j) ==
            \/ Less(distance[i], distance[j])
            \/ /\ ~Less(distance[j], distance[i])
               /\ i < j
      IN  ApplyTo([i \in 1..Len(l) |->
                     Cardinality({j \in 1..Len(l) : before(j, i)}) + 1],
                  LAMBDA rank :
            [p \in 1..Len(l) |-> l[CHOOSE i \in 1..Len(l) : rank[i] = p]]))

\* ContactCandidates.GetContacts
GetContacts(l, count) == SubSeq(l, 1, count)

\* RoutingTable.FindClosestContacts
FindClosestContacts(t, me, target, count) ==
    ApplyTo(getBucketIndex(me, target), LAMBDA bucketIndex :
      ApplyTo(Gather(t, bucketIndex, 1, count, t[bucketIndex].list),
              LAMBDA candidates :
        ApplyTo(SortByDistance(candidates, target), LAMBDA sorted :
          GetContacts(sorted,
                      IF count > Len(sorted) THEN Len(sorted) ELSE count))))

\* Every contact of the main lists of a table.
RECURSIVE AllContacts(_, _)
AllContacts(t, i) ==
    IF i >= IDBits THEN <<>> ELSE t[i].list \o AllContacts(t, i + 1)

\* The addresses a table holds.
Addresses(t) ==
    LET all == AllContacts(t, 0) IN {all[i].addr : i \in 1..Len(all)}

--------------------------------------------------------------------------
(* State *)

VARIABLES
    up,          \* up[n]: the process of node n runs and its socket is open
    rt,          \* rt[n]: Kademlia.routingTable, the buckets of node n
    valueStore,  \* valueStore[n]: Kademlia.valueStore, keyHex -> value
    originKeys,  \* originKeys[n]: Kademlia.originKeys
    inflight,    \* inflight[n]: Network.inflight, the MsgIDs with a waiter
    net,         \* the datagrams in flight
    task,        \* task[n][t]: the API thread ("cli") and the republisher
                 \* goroutine ("rep") of node n
    ops,         \* API calls made so far
    putKeys      \* putKeys[n]: the keys the Put calls of node n returned

\* One routing table with the goroutines that call AddContact on it, a step
\* of the model for each critical section and for the liveness probe
\* between them.
VARIABLES
    table,       \* RoutingTable.buckets of that table
    mu,          \* the holder of RoutingTable.mu, "none" when it is free
    obs,         \* obs[g]: the AddContact calls goroutine g is inside, the
                 \* innermost first
    observed     \* the contacts AddContact was called with so far

nodeVars == <<up, rt, valueStore, originKeys, inflight, net, task, ops,
              putKeys>>

tvars == <<table, mu, obs, observed>>

\* The goroutines of one node as sequences of lock operations, inflight
\* operations and datagram operations, in the order of the code.
VARIABLES
    prog,        \* prog[g]: what goroutine g has yet to do in its call
    held,        \* held[g]: the locks g holds, with their mode
    slots,       \* Network.inflight: the MsgIDs with a completion channel
    wire,        \* the MsgIDs of the requests sent and not yet answered
    delivered,   \* the MsgIDs whose completion channel holds a response
    exits,       \* how the wait of an RPC ended, by MsgID
    returned,    \* the MsgIDs whose sending call has returned
    started      \* calls begun so far

ivars == <<prog, held, slots, wire, delivered, exits, returned, started>>

\* The value store of one node as Go keeps it: a map from the key to a
\* slice, and the buffers the slices point to.
VARIABLES
    heap,        \* heap[a]: the content of the buffer at address a
    slices,      \* Kademlia.valueStore: keyHex -> address of the buffer
    ext          \* the buffers held by callers and by decoded datagrams

bvars == <<heap, slices, ext>>

\* One call of LookupContact on a node whose table holds many contacts,
\* with the replies of the peers and the AddContact calls of the other
\* goroutines of the node.
VARIABLES
    ltable,      \* RoutingTable.buckets of the node that looks up
    look,        \* the locals of LookupContact, and what it has done so far
    holder,      \* the address of the peer whose table holds the target
    churn        \* AddContact calls of other goroutines so far

lvars == <<ltable, look, holder, churn>>

\* The goroutines of one node around Kademlia.Close: the callers of Close,
\* the republisher, the reader and the callers of the RPC functions.
VARIABLES
    republishStop,  \* Kademlia.republishStop: "open" or "closed"
    conn,           \* Network.conn: "open" or "closed"
    readStopped,    \* Network.readStopped is closed
    closer,         \* where the goroutine that calls Close is
    republisherPc,  \* where the republisher goroutine is
    readLoopPc,     \* where the reader goroutine is
    rpc,            \* rpc[w]: where caller w of an RPC function is
    chans,          \* Network.inflight: the callers with a channel in it
    closes,         \* calls of Close so far
    crashed,        \* the process has ended by a panic
    atClose         \* the callers that waited when the socket was closed

svars == <<republishStop, conn, readStopped, closer, republisherPc,
           readLoopPc, rpc, chans, closes, crashed, atClose>>

\* One routing table and the calls of its methods, one call a step.
VARIABLES
    rtab,        \* RoutingTable.buckets
    called       \* the last call: its arguments, the table before it, its
                 \* result

qvars == <<rtab, called>>

\* The reader of one node, the callers of its RPC functions and the
\* datagrams that arrive at its socket.
VARIABLES
    chanOf,      \* Network.inflight: MsgID -> the content of the channel
    rpcOf,       \* rpcOf[w]: the RPC function caller w is in
    inbox,       \* the datagrams that have arrived and are not yet read
    kvStore,     \* Kademlia.valueStore
    repliesSent, \* the datagrams the reader has sent
    outcome,     \* how each RPC function returned, by MsgID
    discarded,   \* the responses the reader handed to nobody, and why
    idsUsed      \* the MsgIDs drawn so far

rvars == <<chanOf, rpcOf, inbox, kvStore, repliesSent, outcome, discarded,
           idsUsed>>

vars == <<nodeVars, tvars, ivars, bvars, lvars, svars, qvars, rvars>>

\* What the steps of one part of the model leave unchanged.
nodeFrame == <<tvars, ivars, bvars, lvars, svars, qvars,
               rvars>>

tableFrame == <<nodeVars, ivars, bvars, lvars, svars, qvars,
                rvars>>

ioFrame == <<nodeVars, tvars, bvars, lvars, svars, qvars,
             rvars>>

bufFrame == <<nodeVars, tvars, ivars, lvars, svars, qvars,
              rvars>>

lookFrame == <<nodeVars, tvars, ivars, bvars, svars, qvars,
               rvars>>

shutFrame == <<nodeVars, tvars, ivars, bvars, lvars, qvars,
               rvars>>

callFrame == <<nodeVars, tvars, ivars, bvars, lvars, svars, rvars>>

readFrame == <<nodeVars, tvars, ivars, bvars, lvars, svars, qvars>>

\* Callers of RPC functions at the reader.
MaxRpcs == 2

Callers == 1..MaxRpcs

\* No response.
NoReply ==
    [kind |-> "none", id |-> 0, copy |-> 0, key |-> <<>>, value |-> <<>>]

\* Caller w is in no RPC function.
NoRPC == [pc |-> "none", id |-> 0, got |-> NoReply]

\* No call of the routing table has been made.
NoCall ==
    [op |-> "none", contact |-> NewContact(NoID, NoAddr), target |-> NoID,
     count |-> 0, before |-> NewRoutingTable, result |-> <<>>]

Tasks == {"cli", "rep"}

NoContact == NewContact(NoID, NoAddr)

NoRes == [kind |-> "none", key |-> <<>>, val |-> <<>>, from |-> NoContact]

NoGot == [has |-> FALSE, val |-> <<>>, src |-> NoContact]

\* A thread that runs no call.  Four fields are history, not program
\* state: sent, the addresses the replication of Put sent a STORE to;
\* peers, the addresses in the routing table when Put returned; authors,
\* the nodes whose Put had returned the key when Get was called;
\* replicators, the nodes whose last call was a Put of that key, of a
\* non-empty value, that had returned when Get was called and had sent a
\* STORE to the caller of Get.
IdleTask ==
    [op |-> "none", pc |-> "idle", keyHex |-> <<>>, target |-> NoID,
     value |-> <<>>, visited |-> {}, queried |-> <<>>, lastBest |-> NoID,
     inRound |-> FALSE, pending |-> {}, got |-> NoGot, contacts |-> <<>>,
     keys |-> {}, res |-> NoRes, authors |-> {}, replicators |-> {},
     sent |-> {}, peers |-> {}]

\* storeLocal that passes over an empty value.
storeLocal_SkipEmpty(store, k, v) ==
    IF Len(v) = 0 THEN store
    ELSE [x \in (DOMAIN store) \cup {k} |-> IF x = k THEN v ELSE store[x]]

\* The value store with value v under key k (storeLocal keeps a copy).
storeLocal(store, k, v) ==
    [x \in (DOMAIN store) \cup {k} |-> IF x = k THEN v ELSE store[x]]

\* loadLocal: whether the store holds key k.
loadLocal(store, k) == k \in DOMAIN store

EmptyStore == [x \in {} |-> <<>>]

\* NewKademlia on every node: empty routing table, empty stores, reader and
\* republisher started.
InitNodes ==
    /\ up = [n \in Node |-> TRUE]
    /\ rt = [n \in Node |-> NewRoutingTable]
    /\ valueStore = [n \in Node |-> EmptyStore]
    /\ originKeys = [n \in Node |-> {}]
    /\ inflight = [n \in Node |-> {}]
    /\ net = {}
    /\ task = [n \in Node |-> [t \in Tasks |-> IdleTask]]
    /\ ops = 0
    /\ putKeys = [n \in Node |-> {}]

\* The goroutines that call AddContact: the reader, through its handlers,
\* and a goroutine inside an RPC function.
Observers == {"reader", "cli"}

\* No goroutine is inside AddContact of the table that is stepped through.
InitTableIdle ==
    /\ table = NewRoutingTable
    /\ mu = "none"
    /\ obs = [g \in Observers |-> <<>>]
    /\ observed = <<>>

\* The goroutines of the node that is stepped through operation by
\* operation: the reader, the caller of the API and the republisher.
Goroutines == Observers \cup {"rep"}

\* No goroutine of that node is inside a call.
InitIO ==
    /\ prog = [g \in Goroutines |-> <<>>]
    /\ held = [g \in Goroutines |-> {}]
    /\ slots = {}
    /\ wire = {}
    /\ delivered = {}
    /\ exits = {}
    /\ returned = {}
    /\ started = 0

\* The value store before the first storeLocal.
InitBuffers ==
    /\ heap = <<>>
    /\ slices = [x \in {} |-> 0]
    /\ ext = {}

\* The locals of LookupContact before the call and when it begins.
NoLookup ==
    [pc |-> "idle", target |-> NoID, visited |-> {}, lastBest |-> NoID,
     pending |-> {}, first |-> {}, held |-> {}, bests |-> <<>>, sent |-> 0]

\* No LookupContact is stepped through.
InitLookupIdle ==
    /\ ltable = NewRoutingTable
    /\ look = NoLookup
    /\ holder = NoAddr
    /\ churn = 0

\* Callers of RPC functions around Close.
MaxWaiters == 2

\* Calls of Close on one node.
MaxCloses == 2

Waiters == 1..MaxWaiters

\* NewKademlia has returned: the republisher waits in its select, the
\* reader waits in ReadFromUDP, nobody has called Close.
InitRunning ==
    /\ republishStop = "open"
    /\ conn = "open"
    /\ readStopped = FALSE
    /\ closer = "idle"
    /\ republisherPc = "select"
    /\ readLoopPc = "read"
    /\ rpc = [w \in Waiters |-> "none"]
    /\ chans = {}
    /\ closes = 0
    /\ crashed = FALSE
    /\ atClose = {}

\* No method of the routing table of the calls below has been called.
InitUncalled ==
    /\ rtab = NewRoutingTable
    /\ called = NoCall

\* No RPC is outstanding and no datagram waits to be read.
InitReaderIdle ==
    /\ chanOf = << >>
    /\ rpcOf = [w \in Callers |-> NoRPC]
    /\ inbox = {}
    /\ kvStore = EmptyStore
    /\ repliesSent = 0
    /\ outcome = {}
    /\ discarded = {}
    /\ idsUsed = 0

Init ==
    /\ InitNodes
    /\ InitTableIdle
    /\ InitIO
    /\ InitBuffers
    /\ InitLookupIdle
    /\ InitRunning
    /\ InitUncalled
    /\ InitReaderIdle

--------------------------------------------------------------------------
(* Messages: wire.go envelope *)

Requests == {"PING", "FIND_NODE", "STORE", "FIND_VALUE"}

Responses == {"PONG", "FIND_NODE_OK", "STORE_OK", "FIND_VALUE_OK"}

\* An envelope sent by node n to address to; src is the UDP source address
\* the reply goes to.
envelope(type, n, to, id) ==
    [type |-> type, from |-> Me(n), src |-> n, to |-> to, id |-> id,
     target |-> <<>>, key |-> <<>>, value |-> <<>>, contacts |-> <<>>]

\* The liveness probe wired by NewKademlia (PingWait) as the routing table
\* sees it: the contact's process answers.
PingWait(c) == c.addr \in Node /\ up[c.addr]

\* routingTable.AddContact of node n, on table t.
Learn(t, n, c) ==
    AddContact(t, NodeId(n), c,
               {a \in Node : PingWait(NewContact(NoID, a))})

RECURSIVE LearnAll(_, _, _)
LearnAll(t, n, cs) ==
    IF cs = <<>> THEN t
    ELSE ApplyTo(Learn(t, n, Head(cs)), LAMBDA u : LearnAll(u, n, Tail(cs)))

--------------------------------------------------------------------------
(* Lookup helpers: Kademlia.LookupContact and Kademlia.Get *)

\* A batch selection that takes contacts without an address too.
RECURSIVE TakeBatch_Unaddressed(_, _, _, _)
TakeBatch_Unaddressed(candidates, i, visited, batch) ==
    IF i > Len(candidates) \/ Len(batch) >= alpha
    THEN [batch |-> batch, visited |-> visited]
    ELSE LET contact == candidates[i]
         IN  IF contact.addr \in visited
             THEN TakeBatch_Unaddressed(candidates, i + 1, visited, batch)
             ELSE TakeBatch_Unaddressed(candidates, i + 1,
                                        visited \cup {contact.addr},
                                        Append(batch, contact))

\* nextBatch: up to alpha contacts, closest first, with a non-empty address
\* not yet visited; they are marked visited.
RECURSIVE TakeBatch(_, _, _, _)
TakeBatch(candidates, i, visited, batch) ==
    IF i > Len(candidates) \/ Len(batch) >= alpha
    THEN [batch |-> batch, visited |-> visited]
    ELSE LET contact == candidates[i]
         IN  IF contact.addr = NoAddr \/ contact.addr \in visited
             THEN TakeBatch(candidates, i + 1, visited, batch)
             ELSE TakeBatch(candidates, i + 1, visited \cup {contact.addr},
                            Append(batch, contact))

nextBatch(t, me, target, visited) ==
    ApplyTo(FindClosestContacts(t, me, target, LookupWindow),
            LAMBDA candidates : TakeBatch(candidates, 1, visited, <<>>))

\* A convergence check that goes on while the closest contact is not
\* farther than lastBest.
Converge_NotFarther(t, me, target, lastBest) ==
    ApplyTo(FindClosestContacts(t, me, target, 1), LAMBDA closestNow :
      IF Len(closestNow) = 0 THEN [stop |-> TRUE, best |-> lastBest]
      ELSE LET best == closestNow[1].id
           IN  IF lastBest # NoID
                  /\ Less(CalcDistance(lastBest, target),
                          CalcDistance(best, target))
               THEN [stop |-> TRUE, best |-> lastBest]
               ELSE [stop |-> FALSE, best |-> best])

\* The convergence check at the end of a round: stop when the table is empty
\* or the closest contact is not strictly closer than lastBest.
Converge(t, me, target, lastBest) ==
    ApplyTo(FindClosestContacts(t, me, target, 1), LAMBDA closestNow :
      IF Len(closestNow) = 0 THEN [stop |-> TRUE, best |-> lastBest]
      ELSE LET best == closestNow[1].id
           IN  IF lastBest # NoID
                  /\ ~Less(CalcDistance(best, target),
                           CalcDistance(lastBest, target))
               THEN [stop |-> TRUE, best |-> lastBest]
               ELSE [stop |-> FALSE, best |-> best])

\* Path caching in Get: the index in queried of the contact closest to the
\* key that is neither the responder nor this node; 0 stands for -1.
RECURSIVE BestIdx(_, _, _, _, _, _)
BestIdx(queried, i, src, meAddr, keyID, bestIdx) ==
    IF i > Len(queried) THEN bestIdx
    ELSE LET q == queried[i]
         IN  IF q.addr = src.addr \/ q.addr = meAddr
             THEN BestIdx(queried, i + 1, src, meAddr, keyID, bestIdx)
             ELSE IF bestIdx = 0
             THEN BestIdx(queried, i + 1, src, meAddr, keyID, i)
             ELSE IF Less(CalcDistance(q.id, keyID),
                          CalcDistance(queried[bestIdx].id, keyID))
             THEN BestIdx(queried, i + 1, src, meAddr, keyID, i)
             ELSE BestIdx(queried, i + 1, src, meAddr, keyID, bestIdx)

\* nextMsgID: sixteen random bytes, an id that no datagram in flight
\* carries.  Goroutine t of node n draws its i-th id of a round only when
\* none of its requests is outstanding, so <<n, t, i>> is such an id.
nextMsgID(n, t, i) == <<n, t, i>>

\* The MsgIDs of a batch of requests of goroutine t of node n, one per peer.
BatchIds(n, t, batch) == [i \in 1..Len(batch) |-> nextMsgID(n, t, i)]

\* A call that has returned res; the scratch state of the call is dropped.
Return(tk, res) ==
    [IdleTask EXCEPT !.op = tk.op, !.pc = "done", !.keyHex = tk.keyHex,
                     !.value = tk.value, !.res = res, !.authors = tk.authors,
                     !.replicators = tk.replicators, !.sent = tk.sent]

--------------------------------------------------------------------------
(* The API thread: Join, Put, Get *)

\* The threads that are inside a call or a republish pass.
Active ==
    {<<n, t>> \in Node \X Tasks : task[n][t].pc \notin {"idle", "done", "panic"}}

Callable(n) ==
    /\ up[n]
    /\ task[n]["cli"].pc \in {"idle", "done"}
    /\ ops < MaxOps
    /\ Cardinality(Active) < MaxActive

KeyLenOK(keyHex) == Len(keyHex) = 2 * IDLength

\* Kademlia.Join up to the wait for the PONG of the bootstrap peer b
\* (SendPingMessage); a node joins when it starts, before any other call.
Join(n, b) ==
    /\ Callable(n)
    /\ task[n]["cli"].op = "none"
    /\ b # n
    /\ LET id == nextMsgID(n, "cli", 1)
       IN  /\ task' = [task EXCEPT ![n]["cli"] =
                        [IdleTask EXCEPT !.op = "join", !.pc = "ping",
                                         !.target = NodeId(n),
                                         !.pending = {[id |-> id, peer |-> Me(b)]}]]
           /\ net' = net \cup {envelope("PING", n, b, id)}
           /\ inflight' = [inflight EXCEPT ![n] = @ \cup {id}]
    /\ ops' = ops + 1
    /\ UNCHANGED <<up, rt, valueStore, originKeys, putKeys>>
    /\ UNCHANGED nodeFrame

\* Kademlia.Put up to the lookup of replicateToClosest, or to its return
\* when replicateToClosest has nothing to do.
Put(n, data) ==
    /\ Callable(n)
    /\ LET k == keyFromData(data)
           call == [IdleTask EXCEPT !.op = "put", !.keyHex = k.keyHex,
                                    !.value = data, !.target = k.id]
           skip == ~KeyLenOK(k.keyHex) \/ Len(data) = 0
       IN  /\ valueStore' = [valueStore EXCEPT ![n] = storeLocal(@, k.keyHex, data)]
           /\ originKeys' = [originKeys EXCEPT ![n] = @ \cup {k.keyHex}]
           /\ IF skip
              THEN /\ task' = [task EXCEPT ![n]["cli"] =
                                [Return(call, [NoRes EXCEPT !.kind = "ok",
                                                            !.key = k.keyHex])
                                   EXCEPT !.peers = Addresses(rt[n])]]
                   /\ putKeys' = [putKeys EXCEPT ![n] = @ \cup {k.keyHex}]
              ELSE /\ task' = [task EXCEPT ![n]["cli"] =
                                [call EXCEPT !.pc = "lk"]]
                   /\ UNCHANGED putKeys
    /\ ops' = ops + 1
    /\ UNCHANGED <<up, rt, inflight, net>>
    /\ UNCHANGED nodeFrame

\* Kademlia.Get up to its first round: the local hit, the validation of the
\* key, the seeding of the lookup.
Get(n, keyHex) ==
    /\ Callable(n)
    /\ LET call == [IdleTask EXCEPT
                      !.op = "get", !.keyHex = keyHex,
                      !.authors = {o \in Node : keyHex \in putKeys[o]},
                      !.replicators =
                         {o \in Node \ {n} :
                            /\ task[o]["cli"].op = "put"
                            /\ task[o]["cli"].pc = "done"
                            /\ task[o]["cli"].res.key = keyHex
                            /\ task[o]["cli"].value # <<>>
                            /\ n \in task[o]["cli"].sent}]
       IN  task' = [task EXCEPT ![n]["cli"] =
             IF loadLocal(valueStore[n], keyHex)
             THEN Return(call, [NoRes EXCEPT !.kind = "ok", !.key = keyHex,
                                             !.val = valueStore[n][keyHex],
                                             !.from = Me(n)])
             ELSE IF ~KeyLenOK(keyHex) \/ ~DecodeOK(keyHex)
             THEN Return(call, [NoRes EXCEPT !.kind = "invalid", !.key = keyHex])
             ELSE [call EXCEPT !.pc = "gv", !.target = DecodeToID(keyHex)]]
    /\ ops' = ops + 1
    /\ UNCHANGED <<up, rt, valueStore, originKeys, inflight, net, putKeys>>
    /\ UNCHANGED nodeFrame

--------------------------------------------------------------------------
(* Rounds of the lookups and the STORE loop *)

\* The contacts replicateToClosest sends STORE to, read from the table when
\* the lookup has ended: the bucketSize closest, without this node's own
\* address and without contacts sendStoreTo refuses.
ReplicationTargets(t, n, keyID) ==
    SelectSeq(FindClosestContacts(t, NodeId(n), keyID, bucketSize),
              LAMBDA c : c.addr # Me(n).addr /\ c.addr # NoAddr)

\* The thread after LookupContact has returned.
LookupExit(n, tk) ==
    IF tk.op = "join"
    THEN Return(tk, [NoRes EXCEPT !.kind = "ok"])
    ELSE ApplyTo(ReplicationTargets(rt[n], n, tk.target), LAMBDA targets :
           [tk EXCEPT !.pc = "st", !.visited = {}, !.lastBest = NoID,
                      !.inRound = FALSE, !.contacts = targets,
                      !.sent = IF tk.op = "put"
                               THEN {targets[i].addr : i \in 1..Len(targets)}
                               ELSE {}])

\* LookupContact between two waits: the convergence check of the round that
\* ended, then nextBatch and the FIND_NODE requests of the next round.
LookupStep(n, t) ==
    /\ up[n]
    /\ task[n][t].pc = "lk"
    /\ task[n][t].pending = {}
    /\ \E tk \in {task[n][t]} :
       \E cv \in {IF tk.inRound
                   THEN Converge(rt[n], NodeId(n), tk.target, tk.lastBest)
                   ELSE [stop |-> FALSE, best |-> tk.lastBest]},
          nb \in {nextBatch(rt[n], NodeId(n), tk.target, tk.visited)} :
       LET ids == BatchIds(n, t, nb.batch)
       IN  IF cv.stop \/ nb.batch = <<>>
           THEN /\ task' = [task EXCEPT ![n][t] = LookupExit(n, tk)]
                /\ UNCHANGED <<net, inflight>>
           ELSE /\ task' = [task EXCEPT ![n][t] =
                             [tk EXCEPT !.lastBest = cv.best, !.inRound = TRUE,
                                        !.visited = nb.visited,
                                        !.pending = {[id |-> ids[i], peer |-> nb.batch[i]]
                                                       : i \in 1..Len(nb.batch)}]]
                /\ net' = net \cup
                     {[envelope("FIND_NODE", n, nb.batch[i].addr, ids[i])
                         EXCEPT !.target = EncodeToString(tk.target)]
                        : i \in 1..Len(nb.batch)}
                /\ inflight' = [inflight EXCEPT ![n] =
                                  @ \cup {ids[i] : i \in 1..Len(nb.batch)}]
    /\ UNCHANGED <<up, rt, valueStore, originKeys, ops, putKeys>>
    /\ UNCHANGED nodeFrame

\* The STORE loop of replicateToClosest between two waits: the next
\* sendStoreTo, or the return when the list is exhausted.
StoreStep(n, t) ==
    /\ up[n]
    /\ task[n][t].pc = "st"
    /\ task[n][t].pending = {}
    /\ LET tk == task[n][t]
           id == nextMsgID(n, t, 1)
       IN  IF tk.contacts = <<>>
           THEN /\ task' = [task EXCEPT ![n][t] =
                             IF tk.op = "put"
                             THEN [Return(tk, [NoRes EXCEPT !.kind = "ok",
                                                            !.key = tk.keyHex])
                                     EXCEPT !.peers = Addresses(rt[n])]
                             ELSE [tk EXCEPT !.pc = "rp"]]
                /\ putKeys' = IF tk.op = "put"
                              THEN [putKeys EXCEPT ![n] = @ \cup {tk.keyHex}]
                              ELSE putKeys
                /\ UNCHANGED <<net, inflight>>
           ELSE /\ task' = [task EXCEPT ![n][t] =
                             [tk EXCEPT !.contacts = Tail(tk.contacts),
                                        !.pending = {[id |-> id,
                                                      peer |-> Head(tk.contacts)]}]]
                /\ net' = net \cup
                     {[envelope("STORE", n, Head(tk.contacts).addr, id)
                         EXCEPT !.key = tk.keyHex, !.value = tk.value]}
                /\ inflight' = [inflight EXCEPT ![n] = @ \cup {id}]
                /\ UNCHANGED putKeys
    /\ UNCHANGED <<up, rt, valueStore, originKeys, ops>>
    /\ UNCHANGED nodeFrame

\* A Get that returns the value without caching it.
CacheValue_None(store, keyHex, val) == store

\* The local cache write of a successful Get.
CacheValue(store, keyHex, val) == storeLocal(store, keyHex, val)

\* Get between two waits.  After a round that brought a value: the local
\* cache write, then path caching, whose last trace line indexes queried
\* with bestIdx also when bestIdx is -1, which ends the process.  Otherwise
\* the convergence check, nextBatch and the FIND_VALUE requests of the next
\* round, or the return of "not found".
GetStep(n) ==
    /\ up[n]
    /\ task[n]["cli"].pc = "gv"
    /\ task[n]["cli"].pending = {}
    /\ \E tk \in {task[n]["cli"]} :
       \E bestIdx \in {BestIdx(tk.queried, 1, tk.got.src, Me(n).addr,
                                tk.target, 0)},
          cv \in {IF tk.inRound
                   THEN Converge(rt[n], NodeId(n), tk.target, tk.lastBest)
                   ELSE [stop |-> FALSE, best |-> tk.lastBest]},
          nb \in {nextBatch(rt[n], NodeId(n), tk.target, tk.visited)} :
       LET ids == BatchIds(n, "cli", nb.batch)
           id == nextMsgID(n, "cli", 1)
       IN  IF tk.inRound /\ tk.got.has
           THEN /\ valueStore' = [valueStore EXCEPT ![n] =
                                    CacheValue(@, tk.keyHex, tk.got.val)]
                /\ IF bestIdx # 0
                   THEN /\ task' = [task EXCEPT ![n]["cli"] =
                                     [tk EXCEPT !.pc = "pcw",
                                                !.pending = {[id |-> id,
                                                              peer |-> tk.queried[bestIdx]]}]]
                        /\ net' = net \cup
                             {[envelope("STORE", n, tk.queried[bestIdx].addr, id)
                                 EXCEPT !.key = tk.keyHex, !.value = tk.got.val]}
                        /\ inflight' = [inflight EXCEPT ![n] = @ \cup {id}]
                        /\ UNCHANGED up
                   ELSE /\ task' = [task EXCEPT ![n]["cli"] =
                                     [Return(tk, [NoRes EXCEPT !.kind = "panic",
                                                               !.key = tk.keyHex])
                                        EXCEPT !.pc = "panic"]]
                        /\ up' = [up EXCEPT ![n] = FALSE]
                        /\ UNCHANGED <<net, inflight>>
           ELSE /\ IF cv.stop \/ nb.batch = <<>>
                   THEN /\ task' = [task EXCEPT ![n]["cli"] =
                                     Return(tk, [NoRes EXCEPT !.kind = "notfound",
                                                              !.key = tk.keyHex])]
                        /\ UNCHANGED <<net, inflight>>
                   ELSE /\ task' = [task EXCEPT ![n]["cli"] =
                                     [tk EXCEPT !.lastBest = cv.best,
                                                !.inRound = TRUE,
                                                !.visited = nb.visited,
                                                !.queried = tk.queried \o nb.batch,
                                                !.got = NoGot,
                                                !.pending = {[id |-> ids[i], peer |-> nb.batch[i]]
                                                               : i \in 1..Len(nb.batch)}]]
                        /\ net' = net \cup
                             {[envelope("FIND_VALUE", n, nb.batch[i].addr, ids[i])
                                 EXCEPT !.key = tk.keyHex]
                                : i \in 1..Len(nb.batch)}
                        /\ inflight' = [inflight EXCEPT ![n] =
                                          @ \cup {ids[i] : i \in 1..Len(nb.batch)}]
                /\ UNCHANGED <<up, valueStore>>
    /\ UNCHANGED <<rt, originKeys, ops, putKeys>>
    /\ UNCHANGED nodeFrame

--------------------------------------------------------------------------
(* The end of an RPC: the response handed to its waiter, or the timeout *)

\* The thread after the RPC p it waited for has ended: Join goes on to its
\* lookup after the PING, Get returns after the path-caching STORE.
Completed(tk, p) ==
    IF tk.pc = "ping" THEN [tk EXCEPT !.pc = "lk", !.pending = {}]
    ELSE IF tk.pc = "pcw"
    THEN Return(tk, [NoRes EXCEPT !.kind = "ok", !.key = tk.keyHex,
                                  !.val = tk.got.val, !.from = tk.got.src])
    ELSE [tk EXCEPT !.pending = @ \ {p}]

\* The response m is one the reader of node n hands to the waiter of p.
Awaited(n, t, p, m, type) ==
    /\ up[n]
    /\ m \in net
    /\ m.to = n
    /\ m.type = type
    /\ m.id \in inflight[n]
    /\ p \in task[n][t].pending
    /\ p.id = m.id

\* SendPingMessage receives the PONG: the contact the caller named is added.
RecvPong(n, t, p, m) ==
    /\ Awaited(n, t, p, m, "PONG")
    /\ rt' = [rt EXCEPT ![n] = Learn(@, n, p.peer)]
    /\ task' = [task EXCEPT ![n][t] = Completed(@, p)]
    /\ inflight' = [inflight EXCEPT ![n] = @ \ {m.id}]
    /\ net' = net \ {m}
    /\ UNCHANGED <<up, valueStore, originKeys, ops, putKeys>>
    /\ UNCHANGED nodeFrame

\* SendFindContactMessageTo receives FIND_NODE_OK: the listed contacts, then
\* the responder, are added.
RecvFindNodeOK(n, t, p, m) ==
    /\ Awaited(n, t, p, m, "FIND_NODE_OK")
    /\ rt' = [rt EXCEPT ![n] = Learn(LearnAll(@, n, m.contacts), n, m.from)]
    /\ task' = [task EXCEPT ![n][t] = Completed(@, p)]
    /\ inflight' = [inflight EXCEPT ![n] = @ \ {m.id}]
    /\ net' = net \ {m}
    /\ UNCHANGED <<up, valueStore, originKeys, ops, putKeys>>
    /\ UNCHANGED nodeFrame

\* sendFindValueTo that takes a response without a value for a value.
RecvFindValueOK_AnyValue(n, t, p, m) ==
    /\ Awaited(n, t, p, m, "FIND_VALUE_OK")
    /\ rt' = [rt EXCEPT ![n] = LearnAll(Learn(@, n, m.from), n, m.contacts)]
    /\ task' = [task EXCEPT ![n][t] =
                 [Completed(@, p) EXCEPT
                    !.got = [has |-> TRUE, val |-> m.value, src |-> p.peer]]]
    /\ inflight' = [inflight EXCEPT ![n] = @ \ {m.id}]
    /\ net' = net \ {m}
    /\ UNCHANGED <<up, valueStore, originKeys, ops, putKeys>>
    /\ UNCHANGED nodeFrame

\* sendFindValueTo receives FIND_VALUE_OK: the responder, then the listed
\* contacts, are added; a value of length > 0 is the result of the round.
RecvFindValueOK(n, t, p, m) ==
    /\ Awaited(n, t, p, m, "FIND_VALUE_OK")
    /\ rt' = [rt EXCEPT ![n] = LearnAll(Learn(@, n, m.from), n, m.contacts)]
    /\ task' = [task EXCEPT ![n][t] =
                 IF Len(m.value) > 0
                 THEN [Completed(@, p) EXCEPT
                         !.got = [has |-> TRUE, val |-> m.value, src |-> p.peer]]
                 ELSE Completed(@, p)]
    /\ inflight' = [inflight EXCEPT ![n] = @ \ {m.id}]
    /\ net' = net \ {m}
    /\ UNCHANGED <<up, valueStore, originKeys, ops, putKeys>>
    /\ UNCHANGED nodeFrame

\* sendStoreTo receives STORE_OK.
RecvStoreOK(n, t, p, m) ==
    /\ Awaited(n, t, p, m, "STORE_OK")
    /\ task' = [task EXCEPT ![n][t] = Completed(@, p)]
    /\ inflight' = [inflight EXCEPT ![n] = @ \ {m.id}]
    /\ net' = net \ {m}
    /\ UNCHANGED <<up, rt, valueStore, originKeys, ops, putKeys>>
    /\ UNCHANGED nodeFrame

\* A timeout that makes Put fail instead of being absorbed.
Timeout_Abort(n, t, p) ==
    /\ up[n]
    /\ p \in task[n][t].pending
    /\ task' = [task EXCEPT ![n][t] =
                 IF @.op = "put"
                 THEN Return(@, [NoRes EXCEPT !.kind = "error"])
                 ELSE Completed(@, p)]
    /\ inflight' = [inflight EXCEPT ![n] = @ \ {p.id}]
    /\ net' = {m \in net : m.id # p.id}
    /\ UNCHANGED <<up, rt, valueStore, originKeys, ops, putKeys>>
    /\ UNCHANGED nodeFrame

\* A timeout after which the peer that did not answer is added all the same.
Timeout_Learn(n, t, p) ==
    /\ up[n]
    /\ p \in task[n][t].pending
    /\ rt' = [rt EXCEPT ![n] = Learn(@, n, p.peer)]
    /\ task' = [task EXCEPT ![n][t] = Completed(@, p)]
    /\ inflight' = [inflight EXCEPT ![n] = @ \ {p.id}]
    /\ net' = {m \in net : m.id # p.id}
    /\ UNCHANGED <<up, valueStore, originKeys, ops, putKeys>>
    /\ UNCHANGED nodeFrame

\* The timer of an RPC expires before its response is taken: the request
\* was lost or went to a closed socket, or the response was lost or comes
\* late.  The waiter is removed; readLoop finds no waiter for a late
\* response and ignores it, so the datagram of the RPC has no further
\* effect.
Timeout(n, t, p) ==
    /\ up[n]
    /\ p \in task[n][t].pending
    /\ task' = [task EXCEPT ![n][t] = Completed(@, p)]
    /\ inflight' = [inflight EXCEPT ![n] = @ \ {p.id}]
    /\ net' = {m \in net : m.id # p.id}
    /\ UNCHANGED <<up, rt, valueStore, originKeys, ops, putKeys>>
    /\ UNCHANGED nodeFrame

--------------------------------------------------------------------------
(* The reader: Network.readLoop and the handlers *)

\* The reader of node n takes request m.
Inbound(n, m, type) ==
    /\ up[n]
    /\ m \in net
    /\ m.to = n
    /\ m.type = type

\* handlePing that answers without adding the sender.
handlePing_NoLearn(n, m) ==
    /\ Inbound(n, m, "PING")
    /\ net' = (net \ {m}) \cup {envelope("PONG", n, m.src, m.id)}
    /\ UNCHANGED <<up, rt, valueStore, originKeys, inflight, task, ops,
                   putKeys>>
    /\ UNCHANGED nodeFrame

\* handlePing: the sender is added, PONG echoes the MsgID.
handlePing(n, m) ==
    /\ Inbound(n, m, "PING")
    /\ rt' = [rt EXCEPT ![n] = Learn(@, n, m.from)]
    /\ net' = (net \ {m}) \cup {envelope("PONG", n, m.src, m.id)}
    /\ UNCHANGED <<up, valueStore, originKeys, inflight, task, ops,
                   putKeys>>
    /\ UNCHANGED nodeFrame

\* handleFindNode: no reply to a target that is not IDLength bytes of hex;
\* otherwise FIND_NODE_OK with the bucketSize closest contacts.
handleFindNode(n, m) ==
    /\ Inbound(n, m, "FIND_NODE")
    /\ net' = IF ~DecodeOK(m.target) \/ ~KeyLenOK(m.target)
              THEN net \ {m}
              ELSE (net \ {m}) \cup
                   {[envelope("FIND_NODE_OK", n, m.src, m.id) EXCEPT
                       !.contacts = FindClosestContacts(rt[n], NodeId(n),
                                        DecodeToID(m.target), bucketSize)]}
    /\ UNCHANGED <<up, rt, valueStore, originKeys, inflight, task, ops, putKeys>>
    /\ UNCHANGED nodeFrame

\* handleStore that acknowledges without writing.
handleStore_NoWrite(n, m) ==
    /\ Inbound(n, m, "STORE")
    /\ rt' = [rt EXCEPT ![n] = Learn(@, n, m.from)]
    /\ net' = (net \ {m}) \cup {envelope("STORE_OK", n, m.src, m.id)}
    /\ UNCHANGED <<up, valueStore, originKeys, inflight, task, ops,
                   putKeys>>
    /\ UNCHANGED nodeFrame

\* handleStore that makes the receiver an origin of the key.
handleStore_Origin(n, m) ==
    /\ Inbound(n, m, "STORE")
    /\ rt' = [rt EXCEPT ![n] = Learn(@, n, m.from)]
    /\ valueStore' = IF m.key # <<>> /\ Len(m.value) > 0
                     THEN [valueStore EXCEPT ![n] = storeLocal(@, m.key, m.value)]
                     ELSE valueStore
    /\ originKeys' = [originKeys EXCEPT ![n] = @ \cup {m.key}]
    /\ net' = (net \ {m}) \cup {envelope("STORE_OK", n, m.src, m.id)}
    /\ UNCHANGED <<up, inflight, task, ops, putKeys>>
    /\ UNCHANGED nodeFrame

\* handleStore: the sender is added, a non-empty value under a non-empty
\* key is stored, STORE_OK is sent.
handleStore(n, m) ==
    /\ Inbound(n, m, "STORE")
    /\ rt' = [rt EXCEPT ![n] = Learn(@, n, m.from)]
    /\ valueStore' = IF m.key # <<>> /\ Len(m.value) > 0
                     THEN [valueStore EXCEPT ![n] = storeLocal(@, m.key, m.value)]
                     ELSE valueStore
    /\ net' = (net \ {m}) \cup {envelope("STORE_OK", n, m.src, m.id)}
    /\ UNCHANGED <<up, originKeys, inflight, task, ops, putKeys>>
    /\ UNCHANGED nodeFrame

\* handleFindValue: the value when the store holds the key; otherwise the
\* closest contacts when the key has the length of a key; otherwise nothing.
handleFindValue(n, m) ==
    /\ Inbound(n, m, "FIND_VALUE")
    /\ net' = IF loadLocal(valueStore[n], m.key)
              THEN (net \ {m}) \cup
                   {[envelope("FIND_VALUE_OK", n, m.src, m.id) EXCEPT
                       !.key = m.key, !.value = valueStore[n][m.key]]}
              ELSE IF KeyLenOK(m.key)
              THEN (net \ {m}) \cup
                   {[envelope("FIND_VALUE_OK", n, m.src, m.id) EXCEPT
                       !.key = m.key,
                       !.contacts = FindClosestContacts(rt[n], NodeId(n),
                                        DecodeToID(m.key), bucketSize)]}
              ELSE net \ {m}
    /\ UNCHANGED <<up, rt, valueStore, originKeys, inflight, task, ops, putKeys>>
    /\ UNCHANGED nodeFrame

--------------------------------------------------------------------------
(* The republisher goroutine *)

\* republisher: a tick of the ticker; republishOwnedKeys snapshots the
\* origin keys.
Tick(n) ==
    /\ up[n]
    /\ task[n]["rep"].pc = "idle"
    /\ Cardinality(Active) < MaxActive
    /\ task' = [task EXCEPT ![n]["rep"] =
                 [IdleTask EXCEPT !.op = "republish", !.pc = "rp",
                                  !.keys = originKeys[n]]]
    /\ UNCHANGED <<up, rt, valueStore, originKeys, inflight, net, putKeys, ops>>
    /\ UNCHANGED nodeFrame

\* republishOwnedKeys: the next key of the snapshot, in the order of a map
\* iteration.  A key with no value or an empty value, or one that is not
\* IDLength bytes of hex, is passed over; otherwise replicateToClosest
\* starts its lookup.  With no key left the goroutine waits for the ticker.
RepublishStep(n) ==
    /\ up[n]
    /\ task[n]["rep"].pc = "rp"
    /\ LET tk == task[n]["rep"]
       IN  IF tk.keys = {}
           THEN task' = [task EXCEPT ![n]["rep"] = IdleTask]
           ELSE \E keyHex \in tk.keys :
                  LET ok == /\ loadLocal(valueStore[n], keyHex)
                            /\ Len(valueStore[n][keyHex]) # 0
                            /\ DecodeOK(keyHex)
                            /\ KeyLenOK(keyHex)
                  IN  task' = [task EXCEPT ![n]["rep"] =
                        IF ok
                        THEN [tk EXCEPT !.pc = "lk", !.keys = @ \ {keyHex},
                                        !.keyHex = keyHex,
                                        !.value = valueStore[n][keyHex],
                                        !.target = DecodeToID(keyHex)]
                        ELSE [tk EXCEPT !.keys = @ \ {keyHex}]]
    /\ UNCHANGED <<up, rt, valueStore, originKeys, inflight, net, ops,
                   putKeys>>
    /\ UNCHANGED nodeFrame

--------------------------------------------------------------------------
(* The environment *)

\* Kademlia.Close, called between two commands: the republisher stops and
\* the socket is closed, the node answers no more.
Close(n) ==
    /\ Callable(n)
    /\ task[n]["rep"].pc = "idle"
    /\ up' = [up EXCEPT ![n] = FALSE]
    /\ ops' = ops + 1
    /\ UNCHANGED <<rt, valueStore, originKeys, inflight, net, task, putKeys>>
    /\ UNCHANGED nodeFrame

--------------------------------------------------------------------------
(* Specifications *)

\* The keys Get is called with: the keys of the values, a well-formed key
\* of no value, a key of the wrong length, a key of the right length that
\* is not hex.
UnstoredKey == EncodeToString(0)

ShortKey == <<"a", "b", "c">>

NotHexKey == [i \in 1..(2 * IDLength) |-> "g"]

GetKeys ==
    {keyFromData(v).keyHex : v \in Values} \cup {UnstoredKey, ShortKey, NotHexKey}

\* The API calls of the nodes in callers: Join through a peer of boots, Put
\* of a value of datas, Get of a key of keys.
Calls(callers, boots, datas, keys) ==
    \/ \E n \in callers, b \in boots : Join(n, b)
    \/ \E n \in callers, data \in datas : Put(n, data)
    \/ \E n \in callers, keyHex \in keys : Get(n, keyHex)

\* The threads between two waits, the reader and the waiters.
Steps ==
    \/ \E n \in Node, t \in Tasks : LookupStep(n, t)
    \/ \E n \in Node, t \in Tasks : StoreStep(n, t)
    \/ \E n \in Node : GetStep(n)
    \/ \E n \in Node, t \in Tasks, m \in net : \E p \in task[n][t].pending :
          RecvPong(n, t, p, m)
    \/ \E n \in Node, t \in Tasks, m \in net : \E p \in task[n][t].pending :
          RecvFindNodeOK(n, t, p, m)
    \/ \E n \in Node, t \in Tasks, m \in net : \E p \in task[n][t].pending :
          RecvFindValueOK(n, t, p, m)
    \/ \E n \in Node, t \in Tasks, m \in net : \E p \in task[n][t].pending :
          RecvStoreOK(n, t, p, m)
    \/ \E n \in Node, m \in net : handlePing(n, m)
    \/ \E n \in Node, m \in net : handleFindNode(n, m)
    \/ \E n \in Node, m \in net : handleStore(n, m)
    \/ \E n \in Node, m \in net : handleFindValue(n, m)

\* The republisher of the nodes in callers.
Republish(callers) ==
    \/ \E n \in callers : Tick(n)
    \/ \E n \in Node : RepublishStep(n)

\* Failures: lost and late datagrams, closed nodes.
Fail(callers) ==
    \/ \E n \in Node, t \in Tasks : \E p \in task[n][t].pending : Timeout(n, t, p)
    \/ \E n \in callers : Close(n)

\* Every behaviour of MaxCallers nodes, failures included.
Next ==
    \/ Calls(1..MaxCallers, 1..MaxCallers, Values, GetKeys)
    \/ Steps
    \/ Republish(1..MaxCallers)
    \/ Fail(1..MaxCallers)

Spec == Init /\ [][Next]_vars

\* A request to a closed socket is never answered: the RPC times out.
TimeoutClosed ==
    \E n \in Node, t \in Tasks : \E p \in task[n][t].pending :
        /\ ~up[p.peer.addr]
        /\ Timeout(n, t, p)

\* The keys of the values.
ValueKeys == {keyFromData(v).keyHex : v \in Values}

\* A network that loses nothing and in which every running peer answers in
\* time; every node joins through node 1.
NextLossless ==
    \/ Calls(Node, {1}, Values, ValueKeys \cup {UnstoredKey})
    \/ Steps
    \/ Republish(Node)
    \/ TimeoutClosed

SpecLossless == Init /\ [][NextLossless]_vars

\* randomID() of the command-line program: identifiers that are not the
\* identifier of any node.
PlaceholderIds == {NodeIds[6], NodeIds[6] + 1}

\* The command-line program with -bootstrap: the contact of the bootstrap
\* address b is made with a random identifier and given to Join.
JoinCLI(n, b, id) ==
    /\ Callable(n)
    /\ task[n]["cli"].op = "none"
    /\ b # n
    /\ LET msgID == nextMsgID(n, "cli", 1)
       IN  /\ task' = [task EXCEPT ![n]["cli"] =
                        [IdleTask EXCEPT
                           !.op = "join", !.pc = "ping",
                           !.target = NodeId(n),
                           !.pending = {[id |-> msgID,
                                         peer |-> NewContact(id, b)]}]]
           /\ net' = net \cup {envelope("PING", n, b, msgID)}
           /\ inflight' = [inflight EXCEPT ![n] = @ \cup {msgID}]
    /\ ops' = ops + 1
    /\ UNCHANGED <<up, rt, valueStore, originKeys, putKeys>>
    /\ UNCHANGED nodeFrame

\* Nodes started by the command-line program or by the tests; every node
\* joins through node 1; datagrams may be lost.
NextCLI ==
    \/ \E n \in Node, id \in PlaceholderIds : JoinCLI(n, 1, id)
    \/ \E n \in Node : Join(n, 1)
    \/ \E n \in Node : LookupStep(n, "cli")
    \/ \E n \in Node, m \in net : \E p \in task[n]["cli"].pending :
          RecvPong(n, "cli", p, m)
    \/ \E n \in Node, m \in net : \E p \in task[n]["cli"].pending :
          RecvFindNodeOK(n, "cli", p, m)
    \/ \E n \in Node, m \in net : handlePing(n, m)
    \/ \E n \in Node, m \in net : handleFindNode(n, m)
    \/ \E n \in Node : \E p \in task[n]["cli"].pending : Timeout(n, "cli", p)

SpecCLI == Init /\ [][NextCLI]_vars

\* A STORE datagram from a sender that is not one of the nodes: any key,
\* any value, a sender field that does not decode to a contact.
ForeignStore(n, keyHex, value) ==
    /\ ops < MaxOps
    /\ Cardinality({m \in net : NoAddr \in {m.src, m.to}}) < MaxForeign
    /\ net' = net \cup
         {[type |-> "STORE", from |-> NoContact, src |-> NoAddr, to |-> n,
           id |-> <<0, ops>>, target |-> <<>>, key |-> keyHex,
           value |-> value, contacts |-> <<>>]}
    /\ ops' = ops + 1
    /\ UNCHANGED <<up, rt, valueStore, originKeys, inflight, task, putKeys>>
    /\ UNCHANGED nodeFrame

\* The nodes on a network on which other senders exist.
NextOpen ==
    \/ Next
    \/ \E n \in 1..MaxCallers, keyHex \in {ShortKey, UnstoredKey} :
          ForeignStore(n, keyHex, <<104>>)

SpecOpen == Init /\ [][NextOpen]_vars

\* A step of goroutine t of node n: its code between two waits, or the end
\* of a wait by the answer.
ThreadStep(n, t) ==
    \/ LookupStep(n, t)
    \/ StoreStep(n, t)
    \/ t = "cli" /\ GetStep(n)
    \/ t = "rep" /\ RepublishStep(n)
    \/ \E m \in net : \E p \in task[n][t].pending :
          \/ RecvPong(n, t, p, m)
          \/ RecvFindNodeOK(n, t, p, m)
          \/ RecvFindValueOK(n, t, p, m)
          \/ RecvStoreOK(n, t, p, m)

\* A step of the reader goroutine of node n.
Reader(n) ==
    \E m \in net : \/ handlePing(n, m)
                   \/ handleFindNode(n, m)
                   \/ handleStore(n, m)
                   \/ handleFindValue(n, m)

\* What the scheduler and the timers guarantee: a goroutine that can take
\* a step, a reader with a datagram to read and a timer that has expired
\* are not postponed forever, whatever the other goroutines do.
Progress(n, t) ==
    \/ ThreadStep(n, t)
    \/ \E p \in task[n][t].pending : Timeout(n, t, p)

SpecFair ==
    /\ Init /\ [][Next]_vars
    /\ \A n \in Node : WF_vars(Reader(n))
    /\ \A n \in Node, t \in Tasks : WF_vars(Progress(n, t))

ProgressLossless(n, t) ==
    \/ ThreadStep(n, t)
    \/ \E p \in task[n][t].pending : ~up[p.peer.addr] /\ Timeout(n, t, p)

\* The ticker of every republisher fires again and again, whatever the
\* other nodes do.
SpecLosslessFair ==
    /\ Init /\ [][NextLossless]_vars
    /\ \A n \in Node : WF_vars(Reader(n))
    /\ \A n \in Node, t \in Tasks : WF_vars(ProgressLossless(n, t))
    /\ \A n \in Node : SF_vars(Tick(n))

--------------------------------------------------------------------------
(* RoutingTable.AddContact step by step: routingtable.go, and the probe   *)
(* NewKademlia wires into it, Network.PingWait                            *)

\* Calls of AddContact made on the table.
MaxObserve == 3

\* AddContact calls a goroutine is inside at once: the call, and the call
\* PingWait makes when its probe is answered.
MaxDepth == 2

\* The node that owns the table.
Owner == 1

\* The i-th contact of the far half of the identifier space, the half of
\* bucket 0 of the owner; its address is written as its identifier.
Far(i) == NewContact(Pow2(IDBits - 1) + i, Pow2(IDBits - 1) + i)

\* Table t after AddContact of Far(lo) .. Far(hi), one call after the
\* other.
RECURSIVE AddAll(_, _, _, _)
AddAll(t, lo, hi, pingFunc) ==
    IF lo > hi THEN t
    ELSE IF lo = hi THEN AddContact(t, NodeId(Owner), Far(lo), pingFunc)
    ELSE ApplyTo(AddAll(t, lo, (lo + hi) \div 2, pingFunc),
                 LAMBDA h : AddAll(h, ((lo + hi) \div 2) + 1, hi, pingFunc))

\* The empty table after AddContact of Far(1) .. Far(k).
FilledTable(k) == AddAll(NewRoutingTable, 1, k, {})

\* The table with a full bucket after AddContact of k more contacts, each
\* probe answered.
WithReplacements(k) ==
    ApplyTo(FilledTable(bucketSize),
            LAMBDA t : AddAll(t, bucketSize + 1, bucketSize + k,
                              {Far(i).addr : i \in 1..bucketSize}))

\* The tables the calls start from: empty, one place left in bucket 0,
\* bucket 0 full, bucket 0 full with one replacement, bucket 0 and its
\* replacement cache full.
StartTables ==
    {NewRoutingTable, FilledTable(bucketSize - 1), FilledTable(bucketSize),
     WithReplacements(1), WithReplacements(replCap)}

\* The contacts AddContact is called with: nil, the owner, the oldest
\* contact of the full bucket, its first replacement, two contacts that
\* are in no list, and a contact of another bucket.
ObsContacts ==
    {NoContact, Me(Owner), Far(1), Far(bucketSize + 1),
     Far(bucketSize + replCap + 1), Far(bucketSize + replCap + 2),
     NewContact(NodeId(Owner) + 1, NodeId(Owner) + 1)}

\* AddContact ignores a contact without identifier and the owner itself.
Ignored_NilOnly(me, c) == c.id = NoID

Ignored(me, c) == c.id = NoID \/ Equals(me, c.id)

\* A call of AddContact(c) at its first Lock.  before and alone are
\* history: the table at the first Lock of the call, and whether no other
\* goroutine has been inside AddContact since the call began.
NewFrame(c, alone) ==
    [contact |-> c, pc |-> "lock1", lru |-> NoContact, alive |-> FALSE,
     before |-> NewRoutingTable, alone |-> alone]

Top(g) == Head(obs[g])

SetTop(g, f) == [obs EXCEPT ![g] = <<f>> \o Tail(@)]

\* AddContact up to phase 1.  A call that begins while another goroutine
\* is inside AddContact overlaps with it.
Observe(g, c) ==
    /\ obs[g] = <<>>
    /\ Len(observed) < MaxObserve
    /\ observed' = Append(observed, c)
    /\ obs' = IF Ignored(NodeId(Owner), c) THEN obs
              ELSE [h \in Observers |->
                      IF h = g
                      THEN <<NewFrame(c, \A o \in Observers : obs[o] = <<>>)>>
                      ELSE [i \in 1..Len(obs[h]) |->
                              [obs[h][i] EXCEPT !.alone = FALSE]]]
    /\ UNCHANGED <<table, mu>>
    /\ UNCHANGED tableFrame

\* Phase 1 that looks at the size of the bucket first: in a full bucket a
\* contact that is present is treated like a new one.
Phase1_SizeFirst(g) ==
    /\ obs[g] # <<>>
    /\ Top(g).pc = "lock1"
    /\ mu = "none"
    /\ mu' = g
    /\ LET f == [Top(g) EXCEPT !.before = table]
           bucketIndex == getBucketIndex(NodeId(Owner), f.contact.id)
           b == table[bucketIndex]
           at == IndexOfID(b.list, f.contact.id)
       IN  IF Len(b.list) >= bucketSize
           THEN /\ table' = table
                /\ obs' = SetTop(g, [f EXCEPT !.pc = "full",
                                              !.lru = b.list[Len(b.list)]])
           ELSE IF at # 0
           THEN /\ table' = [table EXCEPT
                               ![bucketIndex].list = MoveToFront(b.list, at)]
                /\ obs' = SetTop(g, [f EXCEPT !.pc = "done"])
           ELSE /\ table' = [table EXCEPT
                               ![bucketIndex].list = PushFront(b.list, f.contact)]
                /\ obs' = SetTop(g, [f EXCEPT !.pc = "done"])
    /\ UNCHANGED observed
    /\ UNCHANGED tableFrame

\* Phase 1, under the lock: a contact that is present moves to the front,
\* a bucket with room takes the contact at the front, and of a full bucket
\* the contact at the back is captured.
Phase1(g) ==
    /\ obs[g] # <<>>
    /\ Top(g).pc = "lock1"
    /\ mu = "none"
    /\ mu' = g
    /\ LET f == [Top(g) EXCEPT !.before = table]
           bucketIndex == getBucketIndex(NodeId(Owner), f.contact.id)
           b == table[bucketIndex]
           at == IndexOfID(b.list, f.contact.id)
       IN  IF at # 0
           THEN /\ table' = [table EXCEPT
                               ![bucketIndex].list = MoveToFront(b.list, at)]
                /\ obs' = SetTop(g, [f EXCEPT !.pc = "done"])
           ELSE IF Len(b.list) < bucketSize
           THEN /\ table' = [table EXCEPT
                               ![bucketIndex].list = PushFront(b.list, f.contact)]
                /\ obs' = SetTop(g, [f EXCEPT !.pc = "done"])
           ELSE /\ table' = table
                /\ obs' = SetTop(g, [f EXCEPT !.pc = "full",
                                              !.lru = b.list[Len(b.list)]])
    /\ UNCHANGED observed
    /\ UNCHANGED tableFrame

\* Unlock that lets go of the lock.
Release(g) == "none"

\* Unlock that keeps the lock.
Release_Keep(g) == g

\* routingTable.mu.Unlock(): before the return of phase 1 or phase 3, or
\* before the probe.  A call made by PingWait returns into PingWait, which
\* returns true to the AddContact that probes.
Unlock(g) ==
    /\ obs[g] # <<>>
    /\ Top(g).pc \in {"done", "full"}
    /\ mu = g
    /\ mu' = Release(g)
    /\ obs' = IF Top(g).pc = "full"
              THEN SetTop(g, [Top(g) EXCEPT !.pc = "probe"])
              ELSE IF Len(obs[g]) = 1
              THEN [obs EXCEPT ![g] = <<>>]
              ELSE [obs EXCEPT ![g] =
                      <<[@[2] EXCEPT !.pc = "lock3", !.alive = TRUE]>>
                      \o Tail(Tail(@))]
    /\ UNCHANGED <<table, observed>>
    /\ UNCHANGED tableFrame

\* Phase 2, pingFunc(lru) = PingWait: a PING is sent and the goroutine waits
\* for the PONG or the timeout.  The PONG is handed over by the reader, so
\* the probe is answered only while the reader is in its receive loop, and
\* PingWait then calls AddContact(lru) before it returns.  A probe at depth
\* MaxDepth times out.
Probe(g, alive) ==
    /\ obs[g] # <<>>
    /\ Top(g).pc = "probe"
    /\ alive => obs["reader"] = <<>> /\ Len(obs[g]) < MaxDepth
    /\ obs' = IF alive
              THEN [obs EXCEPT ![g] =
                      <<NewFrame(Top(g).lru, Top(g).alone),
                        [Top(g) EXCEPT !.pc = "nested"]>> \o Tail(@)]
              ELSE SetTop(g, [Top(g) EXCEPT !.pc = "lock3", !.alive = FALSE])
    /\ UNCHANGED <<table, mu, observed>>
    /\ UNCHANGED tableFrame

\* The eviction that leaves the captured contact in the list.
evictLRU_KeepLRU(list, lru, c) == PushFront(list, c)

\* Phase 3 after a failed probe: the captured contact is removed if it is
\* still in the list and the new contact is pushed to the front.
evictLRU(list, lru, c) ==
    LET at == IndexOfID(list, lru.id)
    IN  PushFront(IF at # 0 THEN RemoveAt(list, at) ELSE list, c)

\* The retention that forgets the new contact.
keepLRU_NoReplacement(b, lru, c) ==
    LET at == IndexOfID(b.list, lru.id)
    IN  [list |-> IF at # 0 THEN MoveToFront(b.list, at) ELSE b.list,
         repl |-> b.repl]

\* Phase 3 after an answered probe: the captured contact moves to the front
\* if it is still in the list and the new contact goes to the replacement
\* cache.
keepLRU(b, lru, c) ==
    LET at == IndexOfID(b.list, lru.id)
    IN  [list |-> IF at # 0 THEN MoveToFront(b.list, at) ELSE b.list,
         repl |-> addReplacement(b.repl, c)]

\* Phase 3, under the lock again.
Phase3(g) ==
    /\ obs[g] # <<>>
    /\ Top(g).pc = "lock3"
    /\ mu = "none"
    /\ mu' = g
    /\ LET f == Top(g)
           bucketIndex == getBucketIndex(NodeId(Owner), f.contact.id)
           b == table[bucketIndex]
       IN  table' =
             IF ~f.alive
             THEN [table EXCEPT
                     ![bucketIndex].list = evictLRU(b.list, f.lru, f.contact)]
             ELSE [table EXCEPT
                     ![bucketIndex] = keepLRU(b, f.lru, f.contact)]
    /\ obs' = SetTop(g, [Top(g) EXCEPT !.pc = "done"])
    /\ UNCHANGED observed
    /\ UNCHANGED tableFrame

InitTable ==
    /\ InitNodes
    /\ InitIO
    /\ InitBuffers
    /\ InitLookupIdle
    /\ InitRunning
    /\ InitUncalled
    /\ InitReaderIdle
    /\ table \in StartTables
    /\ mu = "none"
    /\ obs = [g \in Observers |-> <<>>]
    /\ observed = <<>>

TableSteps(G) ==
    \E g \in G :
        \/ \E c \in ObsContacts : Observe(g, c)
        \/ Phase1(g)
        \/ Unlock(g)
        \/ \E alive \in BOOLEAN : Probe(g, alive)
        \/ Phase3(g)

NextTable == TableSteps(Observers)

\* Calls of AddContact by the reader and by one RPC goroutine.
SpecTable == InitTable /\ [][NextTable]_vars

NextTableSeq == TableSteps({"cli"})

\* Calls of AddContact one after the other.
SpecTableSeq == InitTable /\ [][NextTableSeq]_vars

\* The main list of every bucket has no more than bucketSize entries.
WithinCapacity(t) == \A i \in DOMAIN t : Len(t[i].list) <= bucketSize

\* No two entries of a main list have the same identifier.
UniqueIDs(t) ==
    \A i \in DOMAIN t : \A a, b \in 1..Len(t[i].list) :
        a # b => ~Equals(t[i].list[a].id, t[i].list[b].id)

\* No identifier is in the main list and in the replacement cache of a
\* bucket.
ReplacementsApart(t) ==
    \A i \in DOMAIN t : \A a \in 1..Len(t[i].list), b \in 1..Len(t[i].repl) :
        ~Equals(t[i].list[a].id, t[i].repl[b].id)

\* Identifier id is in no list of the table.
InNoList(t, id) ==
    \A i \in DOMAIN t : IndexOfID(t[i].list, id) = 0
                        /\ IndexOfID(t[i].repl, id) = 0

\* Goroutine g is at the return of a call of AddContact, made from outside
\* PingWait, that went through phase 3 and overlapped with no other call.
EvictionDone(g) ==
    /\ Len(obs[g]) = 1
    /\ Top(g).pc = "done"
    /\ Top(g).lru # NoContact
    /\ Top(g).alone

\* The bucket of the call of g held bucketSize different contacts when the
\* call began.
BucketWasFull(g) ==
    LET i == getBucketIndex(NodeId(Owner), Top(g).contact.id)
    IN  /\ Len(Top(g).before[i].list) = bucketSize
        /\ UniqueIDs(Top(g).before)

--------------------------------------------------------------------------
(* Locks, the inflight table and datagrams, operation by operation:       *)
(* kademlia.go, routingtable.go and the network of m2_value_test.go       *)

\* Calls begun on the node: API calls, republish runs, inbound requests.
MaxCalls == 2

\* The MsgID of the k-th request of a call (nextMsgID draws 16 random
\* bytes; the draws are taken to differ).
MsgIdOf(call, k) == <<call, k>>

NoMsg == MsgIdOf(0, 0)

\* One operation of a goroutine.  alts are the continuations the operation
\* chooses from.
Instr(op, lock, mode, id, alts) ==
    [op |-> op, lock |-> lock, mode |-> mode, id |-> id, alts |-> alts]

LockOp(l, mode) == Instr("lock", l, mode, NoMsg, <<>>)

UnlockOp(l) == Instr("unlock", l, "", NoMsg, <<>>)

\* network.send of a reply or of a request; a request that was sent is
\* followed by the wait for its response.
SendOp(type, id, alts) == Instr("send", "", type, id, alts)

\* An RPC function that does not delete its inflight entry after a timeout.
rpcSteps_LeakOnTimeout(type, id, learn) ==
    <<LockOp("network.mu", "w"),
      Instr("register", "", "", id, <<>>),
      UnlockOp("network.mu"),
      SendOp(type, id,
             << <<Instr("wait", "", "", id,
                        <<learn \o <<LockOp("network.mu", "w"),
                                     Instr("delete", "", "", id, <<>>),
                                     UnlockOp("network.mu")>> >>)>>,
                <<LockOp("network.mu", "w"),
                  Instr("delete", "", "", id, <<>>),
                  UnlockOp("network.mu")>> >>),
      Instr("return", "", "", id, <<>>)>>

\* The shape shared by SendPingMessage, PingWait, SendFindContactMessageTo,
\* sendStoreTo and sendFindValueTo: the completion channel is registered
\* under network.mu, the request is sent, the goroutine waits for the
\* response or the timer, on a response it runs learn (its AddContact
\* calls), and the deferred function deletes the entry under network.mu
\* before the function returns, also after a send error.
rpcSteps(type, id, learn) ==
    <<LockOp("network.mu", "w"),
      Instr("register", "", "", id, <<>>),
      UnlockOp("network.mu"),
      SendOp(type, id, << <<Instr("wait", "", "", id, <<learn>>)>>, <<>> >>),
      LockOp("network.mu", "w"),
      Instr("delete", "", "", id, <<>>),
      UnlockOp("network.mu"),
      Instr("return", "", "", id, <<>>)>>

\* AddContact whose first Unlock comes after the probe.
probeSteps_Locked(ping) ==
    ping \o <<UnlockOp("routingTable.mu"),
              LockOp("routingTable.mu", "w"), UnlockOp("routingTable.mu")>>

\* AddContact on a full bucket from the capture of the LRU on: Unlock, the
\* probe, and phase 3 under the lock.
probeSteps(ping) ==
    <<UnlockOp("routingTable.mu")>>
    \o ping
    \o <<LockOp("routingTable.mu", "w"), UnlockOp("routingTable.mu")>>

\* RoutingTable.AddContact of a contact that is not ignored: phase 1 under
\* the lock, then either Unlock and return, or the probe with PingWait,
\* whose own AddContact follows a PONG.  At depth MaxDepth the bucket has
\* room.
RECURSIVE AddContactSteps(_, _)
AddContactSteps(depth, call) ==
    <<LockOp("routingTable.mu", "w"),
      Instr("choose", "", "", NoMsg,
            IF depth >= MaxDepth
            THEN << <<UnlockOp("routingTable.mu")>> >>
            ELSE << <<UnlockOp("routingTable.mu")>>,
                    probeSteps(rpcSteps("PING", MsgIdOf(call, 2 + depth),
                                        AddContactSteps(depth + 1, call))) >>)>>

\* Kademlia.storeLocal
storeLocalSteps == <<LockOp("storeMu", "w"), UnlockOp("storeMu")>>

\* Kademlia.loadLocal
loadLocalSteps == <<LockOp("storeMu", "r"), UnlockOp("storeMu")>>

\* RoutingTable.FindClosestContacts
FindClosestSteps ==
    <<LockOp("routingTable.mu", "r"), UnlockOp("routingTable.mu")>>

\* LookupContact with one round of one FIND_NODE.
LookupSteps(call) ==
    FindClosestSteps
    \o rpcSteps("FIND_NODE", MsgIdOf(call, 1), AddContactSteps(1, call))
    \o FindClosestSteps

\* replicateToClosest with one STORE.
replicateSteps(call) ==
    LookupSteps(call)
    \o FindClosestSteps
    \o rpcSteps("STORE", MsgIdOf(call, 2), <<>>)

\* Kademlia.Put
PutSteps(call) ==
    storeLocalSteps
    \o <<LockOp("originMu", "w"), UnlockOp("originMu")>>
    \o replicateSteps(call)

\* Kademlia.Get of a key the node does not hold, with one FIND_VALUE and
\* the caching of the value.
GetSteps(call) ==
    loadLocalSteps
    \o FindClosestSteps
    \o rpcSteps("FIND_VALUE", MsgIdOf(call, 1), AddContactSteps(1, call))
    \o storeLocalSteps

\* republishOwnedKeys that keeps storeMu until the key is replicated.
republishSteps_Locked(call) ==
    <<LockOp("originMu", "r"), UnlockOp("originMu"),
      LockOp("storeMu", "r")>>
    \o replicateSteps(call)
    \o <<UnlockOp("storeMu")>>

\* republishOwnedKeys with one origin key: the snapshot of the keys under
\* originMu, the copy of the value under storeMu, replicateToClosest.
republishSteps(call) ==
    <<LockOp("originMu", "r"), UnlockOp("originMu"),
      LockOp("storeMu", "r"), UnlockOp("storeMu")>>
    \o replicateSteps(call)

\* handlePing
handlePingSteps(call) ==
    AddContactSteps(1, call) \o <<SendOp("PONG", NoMsg, <<>>)>>

\* handleFindNode
handleFindNodeSteps(call) ==
    FindClosestSteps \o <<SendOp("FIND_NODE_OK", NoMsg, <<>>)>>

\* handleStore
handleStoreSteps(call) ==
    AddContactSteps(1, call)
    \o storeLocalSteps
    \o <<SendOp("STORE_OK", NoMsg, <<>>)>>

\* handleFindValue: the value, or the closest contacts.
handleFindValueSteps(call) ==
    loadLocalSteps
    \o <<Instr("choose", "", "", NoMsg,
               << <<>>, FindClosestSteps >>),
         SendOp("FIND_VALUE_OK", NoMsg, <<>>)>>

\* readLoop with a response: the channel is read from inflight under
\* network.mu and the response is handed over after Unlock; without a
\* channel the response is ignored.
deliverSteps(id) ==
    <<LockOp("network.mu", "w"),
      Instr("readslot", "", "", id,
            << <<UnlockOp("network.mu"), Instr("handover", "", "", id, <<>>)>>,
               <<UnlockOp("network.mu")>> >>)>>

\* What a goroutine may begin.
Programs(g, call) ==
    IF g = "cli" THEN {PutSteps(call), GetSteps(call)}
    ELSE IF g = "rep" THEN {republishSteps(call)}
    ELSE {handlePingSteps(call), handleFindNodeSteps(call),
          handleStoreSteps(call), handleFindValueSteps(call)}

Next1(g) == Head(prog[g])

Busy(g, op) == prog[g] # <<>> /\ Next1(g).op = op

\* Goroutine g begins a call.
Begin(g) ==
    /\ prog[g] = <<>>
    /\ started < MaxCalls
    /\ started' = started + 1
    /\ \E p \in Programs(g, started + 1) : prog' = [prog EXCEPT ![g] = p]
    /\ UNCHANGED <<held, slots, wire, delivered, exits, returned>>
    /\ UNCHANGED ioFrame

\* The reader takes the response to a request that was sent.
TakeResponse(id) ==
    /\ prog["reader"] = <<>>
    /\ id \in wire
    /\ wire' = wire \ {id}
    /\ prog' = [prog EXCEPT !["reader"] = deliverSteps(id)]
    /\ UNCHANGED <<held, slots, delivered, exits, returned, started>>
    /\ UNCHANGED ioFrame

\* Lock and RLock: a writer excludes everyone, a reader excludes writers.
Acquire(g) ==
    /\ Busy(g, "lock")
    /\ LET i == Next1(g)
       IN  /\ \A h \in Goroutines :
                 /\ <<i.lock, "w">> \notin held[h]
                 /\ i.mode = "w" => <<i.lock, "r">> \notin held[h]
           /\ held' = [held EXCEPT ![g] = @ \cup {<<i.lock, i.mode>>}]
    /\ prog' = [prog EXCEPT ![g] = Tail(@)]
    /\ UNCHANGED <<slots, wire, delivered, exits, returned, started>>
    /\ UNCHANGED ioFrame

\* Unlock and RUnlock
Drop(g) ==
    /\ Busy(g, "unlock")
    /\ held' = [held EXCEPT ![g] = {l \in @ : l[1] # Next1(g).lock}]
    /\ prog' = [prog EXCEPT ![g] = Tail(@)]
    /\ UNCHANGED <<slots, wire, delivered, exits, returned, started>>
    /\ UNCHANGED ioFrame

\* network.inflight[env.MsgID] = ch
RegisterSlot(g) ==
    /\ Busy(g, "register")
    /\ slots' = slots \cup {Next1(g).id}
    /\ prog' = [prog EXCEPT ![g] = Tail(@)]
    /\ UNCHANGED <<held, wire, delivered, exits, returned, started>>
    /\ UNCHANGED ioFrame

\* delete(network.inflight, env.MsgID)
DeleteSlot(g) ==
    /\ Busy(g, "delete")
    /\ slots' = slots \ {Next1(g).id}
    /\ prog' = [prog EXCEPT ![g] = Tail(@)]
    /\ UNCHANGED <<held, wire, delivered, exits, returned, started>>
    /\ UNCHANGED ioFrame

\* network.send: the datagram leaves, or WriteToUDP returns an error and
\* the RPC function returns it.
SendStep(g, ok) ==
    /\ Busy(g, "send")
    /\ LET i == Next1(g)
       IN  /\ prog' = [prog EXCEPT ![g] =
                        (IF i.alts = <<>> THEN <<>>
                         ELSE IF ok THEN i.alts[1] ELSE i.alts[2]) \o Tail(@)]
           /\ wire' = IF ok /\ i.id # NoMsg THEN wire \cup {i.id} ELSE wire
           /\ exits' = IF ~ok /\ i.id # NoMsg
                       THEN exits \cup {<<i.id, "send error">>} ELSE exits
    /\ UNCHANGED <<held, slots, delivered, returned, started>>
    /\ UNCHANGED ioFrame

\* select on the completion channel and the timer.
WaitStep(g, answered) ==
    /\ Busy(g, "wait")
    /\ LET i == Next1(g)
       IN  /\ answered => i.id \in delivered
           /\ prog' = [prog EXCEPT ![g] =
                        (IF answered THEN i.alts[1] ELSE <<>>) \o Tail(@)]
           /\ exits' = exits \cup
                         {<<i.id, IF answered THEN "response" ELSE "timeout">>}
    /\ UNCHANGED <<held, slots, wire, delivered, returned, started>>
    /\ UNCHANGED ioFrame

\* A branch of the code that depends on data: the state of the bucket in
\* phase 1 of AddContact, the presence of the key in handleFindValue.
Choose(g, k) ==
    /\ Busy(g, "choose")
    /\ k \in 1..Len(Next1(g).alts)
    /\ prog' = [prog EXCEPT ![g] = Next1(g).alts[k] \o Tail(@)]
    /\ UNCHANGED <<held, slots, wire, delivered, exits, returned, started>>
    /\ UNCHANGED ioFrame

\* ch := network.inflight[env.MsgID]
ReadSlot(g) ==
    /\ Busy(g, "readslot")
    /\ prog' = [prog EXCEPT ![g] =
                 Next1(g).alts[IF Next1(g).id \in slots THEN 1 ELSE 2]
                 \o Tail(@)]
    /\ UNCHANGED <<held, slots, wire, delivered, exits, returned, started>>
    /\ UNCHANGED ioFrame

\* ch <- env
HandOver(g) ==
    /\ Busy(g, "handover")
    /\ delivered' = delivered \cup {Next1(g).id}
    /\ prog' = [prog EXCEPT ![g] = Tail(@)]
    /\ UNCHANGED <<held, slots, wire, exits, returned, started>>
    /\ UNCHANGED ioFrame

\* The return of an RPC function, after its deferred function.
ReturnStep(g) ==
    /\ Busy(g, "return")
    /\ returned' = returned \cup {Next1(g).id}
    /\ prog' = [prog EXCEPT ![g] = Tail(@)]
    /\ UNCHANGED <<held, slots, wire, delivered, exits, started>>
    /\ UNCHANGED ioFrame

InitCalls ==
    /\ InitNodes
    /\ InitTableIdle
    /\ InitIO
    /\ InitBuffers
    /\ InitLookupIdle
    /\ InitRunning
    /\ InitUncalled
    /\ InitReaderIdle

NextIO ==
    \/ \E g \in Goroutines :
          \/ Begin(g)
          \/ Acquire(g)
          \/ Drop(g)
          \/ RegisterSlot(g)
          \/ DeleteSlot(g)
          \/ \E ok \in BOOLEAN : SendStep(g, ok)
          \/ \E answered \in BOOLEAN : WaitStep(g, answered)
          \/ \E k \in 1..2 : Choose(g, k)
          \/ ReadSlot(g)
          \/ HandOver(g)
          \/ ReturnStep(g)
    \/ \E c \in 1..MaxCalls, k \in 1..(2 + MaxDepth) :
          TakeResponse(MsgIdOf(c, k))

\* The goroutines of one node at the level of locks and datagrams.
SpecIO == InitCalls /\ [][NextIO]_vars

--------------------------------------------------------------------------
(* The value store as a map of slices: kademlia.go storeLocal, loadLocal, *)
(* Put, Get, and handleStore                                              *)

\* Buffers allocated in all.
MaxBufs == 5

\* The bytes a buffer is changed to.
Bytes == {104, 105}

\* make([]byte, len(value)); copy(v, value): a new buffer with the content
\* of buffer a.  The address of a buffer is its position in the heap.
CopyOf(h, a) == Append(h, h[a])

\* storeLocal that keeps the slice it is given.
storeSlice_Alias(h, s, k, a) ==
    [heap |-> h,
     slices |-> [x \in (DOMAIN s) \cup {k} |-> IF x = k THEN a ELSE s[x]]]

\* storeLocal: a copy of the buffer is made and the map entry of the key is
\* set to the copy.
storeSlice(h, s, k, a) ==
    [heap |-> CopyOf(h, a),
     slices |-> [x \in (DOMAIN s) \cup {k} |->
                   IF x = k THEN Len(h) + 1 ELSE s[x]]]

\* The content stored under each key.
Stored == [k \in DOMAIN slices |-> heap[slices[k]]]

\* A buffer outside the store: its address, the key it was used with and
\* who holds it.
Ext(a, k, role) == [addr |-> a, keyHex |-> k, role |-> role]

\* Put(data): data is a buffer of the caller; storeLocal copies it, and the
\* replication marshals it into datagrams.
PutBuffer(v) ==
    /\ Len(heap) + 2 <= MaxBufs
    /\ LET data == Len(heap) + 1
           r == storeSlice(Append(heap, v), slices, keyFromData(v).keyHex,
                           data)
       IN  /\ heap' = r.heap
           /\ slices' = r.slices
           /\ ext' = ext \cup {Ext(data, keyFromData(v).keyHex, "put")}
    /\ UNCHANGED bufFrame

\* Get(keyHex) with a local hit: loadLocal returns a copy of the slice.
GetBuffer(k) ==
    /\ Len(heap) + 1 <= MaxBufs
    /\ k \in DOMAIN slices
    /\ heap' = CopyOf(heap, slices[k])
    /\ ext' = ext \cup {Ext(Len(heap) + 1, k, "get")}
    /\ UNCHANGED slices
    /\ UNCHANGED bufFrame

\* Get(keyHex) with a remote hit: the value of the response is cached with
\* storeLocal and returned to the caller.
GetRemoteBuffer(k, v) ==
    /\ Len(heap) + 2 <= MaxBufs
    /\ k \notin DOMAIN slices
    /\ Len(v) > 0
    /\ LET val == Len(heap) + 1
           r == storeSlice(Append(heap, v), slices, k, val)
       IN  /\ heap' = r.heap
           /\ slices' = r.slices
           /\ ext' = ext \cup {Ext(val, k, "get")}
    /\ UNCHANGED bufFrame

\* handleStore: env.Value is the buffer the datagram was decoded into; a
\* non-empty value under a non-empty key is stored with storeLocal.
StoreBuffer(k, v) ==
    /\ Len(heap) + 2 <= MaxBufs
    /\ LET value == Len(heap) + 1
           r == IF k # <<>> /\ Len(v) > 0
                THEN storeSlice(Append(heap, v), slices, k, value)
                ELSE [heap |-> Append(heap, v), slices |-> slices]
       IN  /\ heap' = r.heap
           /\ slices' = r.slices
           /\ ext' = ext \cup {Ext(value, k, "store")}
    /\ UNCHANGED bufFrame

\* The holder of a buffer outside the store writes byte b at position i.
Mutate(e, i, b) ==
    /\ e \in ext
    /\ i \in 1..Len(heap[e.addr])
    /\ heap[e.addr][i] # b
    /\ heap' = [heap EXCEPT ![e.addr][i] = b]
    /\ UNCHANGED <<slices, ext>>
    /\ UNCHANGED bufFrame

\* The keys of the modelled values.
BufferKeys == {keyFromData(v).keyHex : v \in Values}

NextBuffers ==
    \/ \E v \in Values : PutBuffer(v)
    \/ \E k \in BufferKeys : GetBuffer(k)
    \/ \E k \in BufferKeys, v \in Values : GetRemoteBuffer(k, v)
    \/ \E k \in BufferKeys \cup {<<>>}, v \in Values : StoreBuffer(k, v)
    \/ \E a \in 1..MaxBufs, k \in BufferKeys \cup {<<>>},
          role \in {"put", "get", "store"}, b \in Bytes :
          Mutate(Ext(a, k, role), 1, b)

\* The value store of one node and the buffers of its callers and of its
\* inbound datagrams.
SpecBuffers == Init /\ [][NextBuffers]_vars

--------------------------------------------------------------------------
(* Kademlia.LookupContact on a table with many contacts: kademlia.go, and *)
(* Network.SendFindContactMessageTo                                       *)

\* AddContact calls other goroutines make while the lookup runs.
MaxChurn == 1

\* The contact that is looked up.
LookupTarget == Far(1)

\* The peers the table can hold when the lookup begins: one more than two
\* batches.
Peers == {Far(i) : i \in 2..(2 * alpha + 2)}

\* The table that holds the peers with an address in S.
RECURSIVE Holding(_, _)
Holding(S, i) ==
    IF i > 2 * alpha + 2 THEN NewRoutingTable
    ELSE ApplyTo(Holding(S, i + 1), LAMBDA t :
           IF Far(i).addr \in S
           THEN AddContact(t, NodeId(Owner), Far(i), {})
           ELSE t)

\* Tables with room in every bucket: the empty table and the tables that
\* hold the first k peers.
RoomyTables ==
    {Holding({Far(i).addr : i \in 2..k}, 2) : k \in 1..(2 * alpha + 2)}

\* The tables the lookup starts from when the replies are left open: the
\* empty table, a table that holds one peer more than a batch, and a table
\* whose bucket 0 is full and holds the target as its oldest contact.
LookupTables ==
    {NewRoutingTable, Holding({Far(i).addr : i \in 2..(alpha + 2)}, 2),
     FilledTable(bucketSize)}

\* The contact another goroutine adds while the lookup runs.
ChurnContacts == {Far(bucketSize + 1)}

\* handleFindNode of peer p in a network that loses nothing: the holder
\* lists the target; the other peers hold the node that asks and nothing
\* else.
Knows(p) ==
    IF p.addr = holder THEN <<LookupTarget, Me(Owner)>> ELSE <<Me(Owner)>>

\* A contact a peer lists without an address.
Unaddressed == NewContact(Far(bucketSize + 2).id, NoAddr)

\* The contact lists of the FIND_NODE_OK replies in a network of any kind.
Replies == {<<Me(Owner)>>, <<LookupTarget, Unaddressed>>}

\* Every address; the set of the peers that answer a liveness probe when
\* all of them run.
AllAddrs == {Far(i).addr : i \in 1..(bucketSize + 2)}

\* A node with room in its buckets; one of the peers holds the target.
InitLookupLossless ==
    /\ InitNodes
    /\ InitTableIdle
    /\ InitIO
    /\ InitBuffers
    /\ InitRunning
    /\ InitUncalled
    /\ InitReaderIdle
    /\ ltable \in RoomyTables
    /\ look = NoLookup
    /\ holder \in {p.addr : p \in Peers}
    /\ churn = 0

\* A node with any of the tables; what the peers hold is left open.
InitLookup ==
    /\ InitNodes
    /\ InitTableIdle
    /\ InitIO
    /\ InitBuffers
    /\ InitRunning
    /\ InitUncalled
    /\ InitReaderIdle
    /\ ltable \in LookupTables
    /\ look = NoLookup
    /\ holder = NoAddr
    /\ churn = 0

\* LookupContact(target) is called; the seed it reads from the table is
\* overwritten by the first nextBatch before it is used.
LookupContact(target) ==
    /\ look.pc = "idle"
    /\ look' = [NoLookup EXCEPT !.pc = "batch", !.target = target.id,
                                !.held = Addresses(ltable)]
    /\ UNCHANGED <<ltable, holder, churn>>
    /\ UNCHANGED lookFrame

\* A loop head that asks the target itself when the table gives no batch.
LookupRound_AskTarget ==
    /\ look.pc = "batch"
    /\ \E nb \in {nextBatch(ltable, NodeId(Owner), look.target, look.visited)} :
          IF nb.batch = <<>>
          THEN look' = [look EXCEPT !.pc = "done", !.sent = @ + 1]
          ELSE look' = [look EXCEPT
                          !.pc = "wait",
                          !.visited = nb.visited,
                          !.pending = {nb.batch[i] : i \in 1..Len(nb.batch)},
                          !.sent = @ + Len(nb.batch)]
    /\ UNCHANGED <<ltable, holder, churn>>
    /\ UNCHANGED lookFrame

\* The head of the loop: nextBatch, the exit on an empty batch, one
\* goroutine with SendFindContactMessageTo for each peer of the batch.
LookupRound ==
    /\ look.pc = "batch"
    /\ \E nb \in {nextBatch(ltable, NodeId(Owner), look.target, look.visited)} :
          IF nb.batch = <<>>
          THEN look' = [look EXCEPT !.pc = "done"]
          ELSE look' = [look EXCEPT
                          !.pc = "wait",
                          !.visited = nb.visited,
                          !.pending = {nb.batch[i] : i \in 1..Len(nb.batch)},
                          !.first = IF look.sent = 0
                                    THEN {nb.batch[i].addr : i \in 1..Len(nb.batch)}
                                    ELSE @,
                          !.sent = @ + Len(nb.batch)]
    /\ UNCHANGED <<ltable, holder, churn>>
    /\ UNCHANGED lookFrame

\* SendFindContactMessageTo that adds the responder and not the contacts
\* it lists.
LookupReply_ResponderOnly(p, cs, alive) ==
    /\ look.pc = "wait"
    /\ p \in look.pending
    /\ ltable' = AddContact(ltable, NodeId(Owner), p, alive)
    /\ look' = [look EXCEPT !.pending = @ \ {p}]
    /\ UNCHANGED <<holder, churn>>
    /\ UNCHANGED lookFrame

\* SendFindContactMessageTo(p) receives FIND_NODE_OK with the contacts cs:
\* the listed contacts, then the responder, are added; alive is the set of
\* the addresses that answer a probe.
LookupReply(p, cs, alive) ==
    /\ look.pc = "wait"
    /\ p \in look.pending
    /\ ltable' = AddContact(
                   ApplyTo(ltable, LAMBDA t :
                     IF cs = <<>> THEN t
                     ELSE IF Len(cs) = 1
                     THEN AddContact(t, NodeId(Owner), cs[1], alive)
                     ELSE AddContact(AddContact(t, NodeId(Owner), cs[1], alive),
                                     NodeId(Owner), cs[2], alive)),
                   NodeId(Owner), p, alive)
    /\ look' = [look EXCEPT !.pending = @ \ {p}]
    /\ UNCHANGED <<holder, churn>>
    /\ UNCHANGED lookFrame

\* SendFindContactMessageTo(p) returns by its timer.
LookupTimeout(p) ==
    /\ look.pc = "wait"
    /\ p \in look.pending
    /\ look' = [look EXCEPT !.pending = @ \ {p}]
    /\ UNCHANGED <<ltable, holder, churn>>
    /\ UNCHANGED lookFrame

\* The end of a round, when every goroutine of the batch has reported: the
\* closest contact now, and the convergence check against lastBest.
EndRound ==
    /\ look.pc = "wait"
    /\ look.pending = {}
    /\ \E cv \in {Converge(ltable, NodeId(Owner), look.target, look.lastBest)},
          closestNow \in {FindClosestContacts(ltable, NodeId(Owner),
                                              look.target, 1)} :
          look' = [look EXCEPT
                     !.pc = IF cv.stop THEN "done" ELSE "batch",
                     !.lastBest = cv.best,
                     !.bests = IF closestNow = <<>> THEN @
                               ELSE Append(@, CalcDistance(closestNow[1].id,
                                                           look.target))]
    /\ UNCHANGED <<ltable, holder, churn>>
    /\ UNCHANGED lookFrame

\* Another goroutine of the node calls AddContact(c) while the lookup
\* runs: a handler of the reader, or another RPC function.
Churn(c, alive) ==
    /\ look.pc \in {"batch", "wait"}
    /\ churn < MaxChurn
    /\ ltable' = AddContact(ltable, NodeId(Owner), c, alive)
    /\ churn' = churn + 1
    /\ UNCHANGED <<look, holder>>
    /\ UNCHANGED lookFrame

\* The lookup in a network that loses nothing and in which every peer
\* runs.
NextLookupLossless ==
    \/ LookupContact(LookupTarget)
    \/ LookupRound
    \/ \E p \in look.pending : LookupReply(p, Knows(p), AllAddrs)
    \/ EndRound

SpecLookupLossless == InitLookupLossless /\ [][NextLookupLossless]_vars

\* The lookup with replies of any content, timeouts, and AddContact calls
\* of other goroutines whose probes are answered or not.
NextLookup ==
    \/ LookupContact(LookupTarget)
    \/ LookupRound
    \/ \E p \in look.pending, cs \in Replies :
          LookupReply(p, cs, AllAddrs)
    \/ \E p \in look.pending : LookupTimeout(p)
    \/ EndRound
    \/ \E c \in ChurnContacts, alive \in {{}, AllAddrs} : Churn(c, alive)

SpecLookup == InitLookup /\ [][NextLookup]_vars

\* The goroutines of a batch end, by a reply or by their timer, and the
\* goroutine of the lookup is scheduled.
SpecLookupFair ==
    /\ InitLookup /\ [][NextLookup]_vars
    /\ WF_vars(LookupContact(LookupTarget))
    /\ WF_vars(LookupRound)
    /\ WF_vars(EndRound)
    /\ WF_vars(\E p \in look.pending : LookupTimeout(p))

--------------------------------------------------------------------------
(* Kademlia.Close and the goroutines it stops: kademlia.go, network.go *)

\* Close is called.
CallClose ==
    /\ ~crashed
    /\ closer \in {"idle", "returned"}
    /\ closes < MaxCloses
    /\ closer' = "stop"
    /\ closes' = closes + 1
    /\ UNCHANGED <<republishStop, conn, readStopped, republisherPc,
                   readLoopPc, rpc, chans, crashed, atClose>>
    /\ UNCHANGED shutFrame

\* Kademlia.Close: close(kademlia.republishStop); the field is never set
\* to nil, and closing a closed channel is a run-time panic that ends the
\* process.
CloseStop ==
    /\ ~crashed
    /\ closer = "stop"
    /\ IF republishStop = "closed"
       THEN /\ crashed' = TRUE
            /\ UNCHANGED <<republishStop, closer>>
       ELSE /\ republishStop' = "closed"
            /\ closer' = "conn"
            /\ UNCHANGED crashed
    /\ UNCHANGED <<conn, readStopped, republisherPc, readLoopPc, rpc, chans,
                   closes, atClose>>
    /\ UNCHANGED shutFrame

\* A Network.Close that leaves the socket open.
CloseConn_Skip ==
    /\ ~crashed
    /\ closer = "conn"
    /\ closer' = "wait"
    /\ UNCHANGED <<republishStop, conn, readStopped, republisherPc,
                   readLoopPc, rpc, chans, closes, crashed, atClose>>
    /\ UNCHANGED shutFrame

\* Network.Close: conn.Close(), whose error on a closed socket is dropped.
CloseConn ==
    /\ ~crashed
    /\ closer = "conn"
    /\ conn' = "closed"
    /\ closer' = "wait"
    /\ atClose' = IF conn = "open"
                  THEN {w \in Waiters : rpc[w] \in {"registered", "waiting", "got"}}
                  ELSE atClose
    /\ UNCHANGED <<republishStop, readStopped, republisherPc, readLoopPc,
                   rpc, chans, closes, crashed>>
    /\ UNCHANGED shutFrame

\* Network.Close: the select on readStopped and on a timer of 200 ms, then
\* the return of nil.
CloseReturn ==
    /\ ~crashed
    /\ closer = "wait"
    /\ closer' = "returned"
    /\ UNCHANGED <<republishStop, conn, readStopped, republisherPc,
                   readLoopPc, rpc, chans, closes, crashed, atClose>>
    /\ UNCHANGED shutFrame

\* republisher: the ticker fires and the select takes that case.
RepublisherTick ==
    /\ ~crashed
    /\ republisherPc = "select"
    /\ republisherPc' = "pass"
    /\ UNCHANGED <<republishStop, conn, readStopped, closer, readLoopPc, rpc,
                   chans, closes, crashed, atClose>>
    /\ UNCHANGED shutFrame

\* republishOwnedKeys returns; its RPCs end by a reply, a timer or a send
\* error.
RepublisherPassDone ==
    /\ ~crashed
    /\ republisherPc = "pass"
    /\ republisherPc' = "select"
    /\ UNCHANGED <<republishStop, conn, readStopped, closer, readLoopPc, rpc,
                   chans, closes, crashed, atClose>>
    /\ UNCHANGED shutFrame

\* republisher: the select takes the case of the closed republishStop and
\* the goroutine returns.
RepublisherStop ==
    /\ ~crashed
    /\ republisherPc = "select"
    /\ republishStop = "closed"
    /\ republisherPc' = "exited"
    /\ UNCHANGED <<republishStop, conn, readStopped, closer, readLoopPc, rpc,
                   chans, closes, crashed, atClose>>
    /\ UNCHANGED shutFrame

\* readLoop: ReadFromUDP returns a datagram.
ReadDatagram ==
    /\ ~crashed
    /\ readLoopPc = "read"
    /\ conn = "open"
    /\ readLoopPc' = "handle"
    /\ UNCHANGED <<republishStop, conn, readStopped, closer, republisherPc,
                   rpc, chans, closes, crashed, atClose>>
    /\ UNCHANGED shutFrame

\* readLoop: ReadFromUDP fails on the closed socket; readStopped is closed
\* and the goroutine returns.
ReadError ==
    /\ ~crashed
    /\ readLoopPc = "read"
    /\ conn = "closed"
    /\ readStopped' = TRUE
    /\ readLoopPc' = "exited"
    /\ UNCHANGED <<republishStop, conn, closer, republisherPc, rpc, chans,
                   closes, crashed, atClose>>
    /\ UNCHANGED shutFrame

\* readLoop: the datagram is a request, or a response nobody waits for;
\* the handler returns.
HandleRequest ==
    /\ ~crashed
    /\ readLoopPc = "handle"
    /\ readLoopPc' = "read"
    /\ UNCHANGED <<republishStop, conn, readStopped, closer, republisherPc,
                   rpc, chans, closes, crashed, atClose>>
    /\ UNCHANGED shutFrame

\* readLoop: the datagram is the response caller w waits for; it is put
\* into the channel of w.
Deliver(w) ==
    /\ ~crashed
    /\ readLoopPc = "handle"
    /\ w \in chans
    /\ rpc[w] = "waiting"
    /\ rpc' = [rpc EXCEPT ![w] = "got"]
    /\ readLoopPc' = "read"
    /\ UNCHANGED <<republishStop, conn, readStopped, closer, republisherPc,
                   chans, closes, crashed, atClose>>
    /\ UNCHANGED shutFrame

\* An RPC function up to its send: the channel is registered in inflight
\* and its deletion is deferred.
RegisterRPC(w) ==
    /\ ~crashed
    /\ rpc[w] = "none"
    /\ rpc' = [rpc EXCEPT ![w] = "registered"]
    /\ chans' = chans \cup {w}
    /\ UNCHANGED <<republishStop, conn, readStopped, closer, republisherPc,
                   readLoopPc, closes, crashed, atClose>>
    /\ UNCHANGED shutFrame

\* Network.send of the request.  On a closed socket it fails:
\* SendFindContactMessageTo returns the error, SendPingMessage drops it and
\* waits for its timer (dropsError).
SendRPC(w, dropsError) ==
    /\ ~crashed
    /\ rpc[w] = "registered"
    /\ IF conn = "closed" /\ ~dropsError
       THEN /\ rpc' = [rpc EXCEPT ![w] = "returned"]
            /\ chans' = chans \ {w}
       ELSE /\ rpc' = [rpc EXCEPT ![w] = "waiting"]
            /\ UNCHANGED chans
    /\ UNCHANGED <<republishStop, conn, readStopped, closer, republisherPc,
                   readLoopPc, closes, crashed, atClose>>
    /\ UNCHANGED shutFrame

\* The select of the RPC function ends, by the response in the channel or
\* by the timer; the deferred function deletes the channel from inflight.
ReturnRPC(w) ==
    /\ ~crashed
    /\ rpc[w] \in {"waiting", "got"}
    /\ rpc' = [rpc EXCEPT ![w] = "returned"]
    /\ chans' = chans \ {w}
    /\ UNCHANGED <<republishStop, conn, readStopped, closer, republisherPc,
                   readLoopPc, closes, crashed, atClose>>
    /\ UNCHANGED shutFrame

NextShutdown ==
    \/ CallClose
    \/ CloseStop
    \/ CloseConn
    \/ CloseReturn
    \/ RepublisherTick
    \/ RepublisherPassDone
    \/ RepublisherStop
    \/ ReadDatagram
    \/ ReadError
    \/ HandleRequest
    \/ \E w \in Waiters : Deliver(w)
    \/ \E w \in Waiters : RegisterRPC(w)
    \/ \E w \in Waiters, dropsError \in BOOLEAN : SendRPC(w, dropsError)
    \/ \E w \in Waiters : ReturnRPC(w)

SpecShutdown == Init /\ [][NextShutdown]_vars

\* Every goroutine that can run is scheduled and every timer fires; a
\* select with several cases ready takes each of them sooner or later (the
\* Go runtime chooses among ready cases at random).
SpecShutdownFair ==
    /\ Init /\ [][NextShutdown]_vars
    /\ WF_vars(CloseStop)
    /\ WF_vars(CloseConn)
    /\ WF_vars(CloseReturn)
    /\ WF_vars(RepublisherPassDone)
    /\ SF_vars(RepublisherStop)
    /\ WF_vars(ReadError)
    /\ WF_vars(HandleRequest)
    /\ \A w \in Waiters : WF_vars(SendRPC(w, FALSE))
    /\ \A w \in Waiters : WF_vars(ReturnRPC(w))

--------------------------------------------------------------------------

(* The methods of one routing table, called one after the other *)

\* The largest count FindClosestContacts is called with.
MaxCount == 3

\* The contact at distance d from the owner of the table, at address a.
Near(d, a) == NewContact(CalcDistance(NodeId(Owner), d), a)

\* The contacts AddContact is called with: one of bucket 1, two of bucket
\* 2, one of them at two addresses, one of the last bucket, and a contact
\* of the full bucket 0 without its address.
QueryContacts ==
    {Near(64, 1), Near(32, 1), Near(32, 2), Near(33, 1), Near(1, 1),
     NewContact(Far(3).id, NoAddr)}

\* The targets of FindClosestContacts: the owner, and identifiers of
\* buckets 0, 1 and 2.
QueryTargets == {NodeId(Owner), CalcDistance(NodeId(Owner), 129),
                 CalcDistance(NodeId(Owner), 64), CalcDistance(NodeId(Owner), 48)}

\* The tables the calls start from: an empty one and one whose bucket 0 is
\* full.
QueryTables == {NewRoutingTable, FilledTable(bucketSize)}

InitQueries ==
    /\ InitNodes
    /\ InitTableIdle
    /\ InitIO
    /\ InitBuffers
    /\ InitLookupIdle
    /\ InitRunning
    /\ InitReaderIdle
    /\ rtab \in QueryTables
    /\ called = NoCall

\* RoutingTable.AddContact(c); alive is the set of the addresses that
\* answer the liveness probe.
AddContactCall(c, alive) ==
    /\ rtab' = AddContact(rtab, NodeId(Owner), c, alive)
    /\ called' = [NoCall EXCEPT !.op = "AddContact", !.contact = c,
                                !.before = rtab]
    /\ UNCHANGED callFrame

\* RoutingTable.FindClosestContacts(target, count)
FindClosestCall(target, count) ==
    /\ called' = [NoCall EXCEPT
                    !.op = "FindClosestContacts", !.target = target,
                    !.count = count, !.before = rtab,
                    !.result = FindClosestContacts(rtab, NodeId(Owner),
                                                   target, count)]
    /\ UNCHANGED rtab
    /\ UNCHANGED callFrame

NextQueries ==
    \/ \E c \in QueryContacts, alive \in {{}, AllAddrs} :
          AddContactCall(c, alive)
    \/ \E target \in QueryTargets, count \in 1..MaxCount :
          FindClosestCall(target, count)

SpecQueries == InitQueries /\ [][NextQueries]_vars

--------------------------------------------------------------------------

(* The reader and the completion channels: readLoop, the RPC functions *)

\* MsgIDs drawn in all.
MaxIds == 2

\* The responses a peer sends to one request at most: the response and a
\* duplicate.
MaxCopies == 2

\* Copy c of the response to the request with MsgID id.
Response(id, c) ==
    [kind |-> "response", id |-> id, copy |-> c, key |-> <<>>,
     value |-> <<104>>]

\* A STORE request with the value v under its key.
StoreRequest(keyHex, v) ==
    [kind |-> "store", id |-> 0, copy |-> 0, key |-> keyHex, value |-> v]

\* An RPC function of caller w up to its select: nextMsgID, the channel of
\* capacity 1 registered in inflight, the request sent.  The peer sends k
\* responses with the MsgID of the request; each one is in the inbox until
\* the reader reads it, which may be after the RPC function has returned.
StartRPC(w, k) ==
    /\ rpcOf[w].pc \in {"none", "returned"}
    /\ idsUsed < MaxIds
    /\ idsUsed' = idsUsed + 1
    /\ chanOf' = [i \in (DOMAIN chanOf) \cup {idsUsed + 1} |->
                    IF i = idsUsed + 1 THEN <<>> ELSE chanOf[i]]
    /\ rpcOf' = [rpcOf EXCEPT ![w] = [pc |-> "waiting", id |-> idsUsed + 1,
                                      got |-> NoReply]]
    /\ inbox' = inbox \cup {Response(idsUsed + 1, c) : c \in 1..k}
    /\ UNCHANGED <<kvStore, repliesSent, outcome, discarded>>
    /\ UNCHANGED readFrame

\* A STORE request arrives.
ArriveStore(v) ==
    /\ repliesSent = 0
    /\ \A d \in inbox : d.kind # "store"
    /\ inbox' = inbox \cup {StoreRequest(keyFromData(v).keyHex, v)}
    /\ UNCHANGED <<chanOf, rpcOf, kvStore, repliesSent, outcome, discarded,
                   idsUsed>>
    /\ UNCHANGED readFrame

\* A reader that keeps a response nobody waits for in a channel of its
\* own.
ReadResponse_Park(d) ==
    /\ d \in inbox
    /\ d.kind = "response"
    /\ chanOf' = [i \in (DOMAIN chanOf) \cup {d.id} |->
                    IF i = d.id /\ (i \notin DOMAIN chanOf \/ chanOf[i] = <<>>)
                    THEN <<d>> ELSE chanOf[i]]
    /\ inbox' = inbox \ {d}
    /\ UNCHANGED <<rpcOf, kvStore, repliesSent, outcome, discarded, idsUsed>>
    /\ UNCHANGED readFrame

\* A reader that hands a response to any channel that has room.
ReadResponse_AnyWaiter(d) ==
    /\ d \in inbox
    /\ d.kind = "response"
    /\ IF \E i \in DOMAIN chanOf : chanOf[i] = <<>>
       THEN /\ \E i \in DOMAIN chanOf :
                  /\ chanOf[i] = <<>>
                  /\ chanOf' = [chanOf EXCEPT ![i] = <<d>>]
            /\ UNCHANGED discarded
       ELSE /\ discarded' = discarded \cup {<<d, "no waiter">>}
            /\ UNCHANGED chanOf
    /\ inbox' = inbox \ {d}
    /\ UNCHANGED <<rpcOf, kvStore, repliesSent, outcome, idsUsed>>
    /\ UNCHANGED readFrame

\* readLoop with a response: ch := inflight[env.MsgID]; with a channel,
\* select { case ch <- env: default: } and continue: the response goes into
\* the channel when it has room and is discarded otherwise; without a
\* channel the response falls through to the switch on the request types
\* and is ignored by its default case.
ReadResponse(d) ==
    /\ d \in inbox
    /\ d.kind = "response"
    /\ IF d.id \in DOMAIN chanOf
       THEN IF Len(chanOf[d.id]) < 1
            THEN /\ chanOf' = [chanOf EXCEPT ![d.id] = Append(@, d)]
                 /\ UNCHANGED discarded
            ELSE /\ discarded' = discarded \cup {<<d, "channel full">>}
                 /\ UNCHANGED chanOf
       ELSE /\ discarded' = discarded \cup {<<d, "no waiter">>}
            /\ UNCHANGED chanOf
    /\ inbox' = inbox \ {d}
    /\ UNCHANGED <<rpcOf, kvStore, repliesSent, outcome, idsUsed>>
    /\ UNCHANGED readFrame

\* readLoop with a STORE request: handleStore stores the value and sends
\* STORE_OK.
ReadStore(d) ==
    /\ d \in inbox
    /\ d.kind = "store"
    /\ kvStore' = IF d.key # <<>> /\ Len(d.value) > 0
                  THEN storeLocal(kvStore, d.key, d.value)
                  ELSE kvStore
    /\ repliesSent' = repliesSent + 1
    /\ inbox' = inbox \ {d}
    /\ UNCHANGED <<chanOf, rpcOf, outcome, discarded, idsUsed>>
    /\ UNCHANGED readFrame

\* The select of the RPC function of caller w takes the response from its
\* channel.
TakeReply(w) ==
    /\ rpcOf[w].pc = "waiting"
    /\ chanOf[rpcOf[w].id] # <<>>
    /\ rpcOf' = [rpcOf EXCEPT ![w].pc = "got",
                              ![w].got = Head(chanOf[rpcOf[w].id])]
    /\ chanOf' = [chanOf EXCEPT ![rpcOf[w].id] = Tail(@)]
    /\ UNCHANGED <<inbox, kvStore, repliesSent, outcome, discarded, idsUsed>>
    /\ UNCHANGED readFrame

\* The select of the RPC function of caller w takes the timer.
TimeoutRPC(w) ==
    /\ rpcOf[w].pc = "waiting"
    /\ rpcOf' = [rpcOf EXCEPT ![w].pc = "timedout"]
    /\ UNCHANGED <<chanOf, inbox, kvStore, repliesSent, outcome, discarded,
                   idsUsed>>
    /\ UNCHANGED readFrame

\* The RPC function of caller w returns: the deferred function deletes the
\* channel from inflight.
FinishRPC(w) ==
    /\ rpcOf[w].pc \in {"got", "timedout"}
    /\ chanOf' = [i \in (DOMAIN chanOf) \ {rpcOf[w].id} |-> chanOf[i]]
    /\ outcome' = outcome \cup {<<rpcOf[w].id, rpcOf[w].got>>}
    /\ rpcOf' = [rpcOf EXCEPT ![w].pc = "returned"]
    /\ UNCHANGED <<inbox, kvStore, repliesSent, discarded, idsUsed>>
    /\ UNCHANGED readFrame

NextReader ==
    \/ \E w \in Callers, k \in 0..MaxCopies : StartRPC(w, k)
    \/ \E v \in Values : ArriveStore(v)
    \/ \E d \in inbox : ReadResponse(d)
    \/ \E d \in inbox : ReadStore(d)
    \/ \E w \in Callers : TakeReply(w)
    \/ \E w \in Callers : TimeoutRPC(w)
    \/ \E w \in Callers : FinishRPC(w)

SpecReader == Init /\ [][NextReader]_vars

--------------------------------------------------------------------------

(* Properties *)

\* The API thread of node n has returned from a call of op.
Returned(n, op) ==
    /\ task[n]["cli"].op = op
    /\ task[n]["cli"].pc = "done"

\* The API thread of node n has left a call of op, by a return or by the
\* end of the process.
Ended(n, op) ==
    /\ task[n]["cli"].op = op
    /\ task[n]["cli"].pc \in {"done", "panic"}

\* C1: same-node round trip.  The key Put(b) returns is the hex SHA-1 of b,
\* and a Get on the same node of a key one of its Put calls returned gives
\* back exactly the bytes that were put, the empty byte string included.
C1_SameNodeRoundTrip ==
    \A n \in Node :
      LET tk == task[n]["cli"]
      IN  /\ Returned(n, "put") =>
               /\ tk.res.kind = "ok"
               /\ tk.res.key = EncodeToString(Sha1(tk.value))
               /\ Len(tk.res.key) = 2 * IDLength
               /\ \A i \in 1..Len(tk.res.key) :
                    \E j \in 1..16 : HexDigits[j] = tk.res.key[i]
          /\ (Returned(n, "get") /\ n \in tk.authors) =>
               /\ tk.res.kind = "ok"
               /\ \E b \in Values :
                    /\ EncodeToString(Sha1(b)) = tk.keyHex
                    /\ tk.res.val = b

\* A Get of the key of the empty byte string, on the node that put it, has
\* returned the empty byte string.
C1_Witness ==
    \E n \in Node :
      /\ Returned(n, "get")
      /\ n \in task[n]["cli"].authors
      /\ task[n]["cli"].res.kind = "ok"
      /\ task[n]["cli"].res.val = <<>>
      /\ task[n]["cli"].keyHex = EncodeToString(Sha1(<<>>))

\* The routing tables link requester n and origin o: one holds the other,
\* or both hold a common peer.
Linked(n, o) ==
    \/ n = o
    \/ o \in Addresses(rt[n])
    \/ n \in Addresses(rt[o])
    \/ Addresses(rt[n]) \cap Addresses(rt[o]) # {}

\* C2: cross-node round trip.  With every peer running and nothing lost,
\* a Get called on a node linked to a node whose Put(b) had returned the key
\* returns b.
C2_CrossNodeRoundTrip ==
    \A n \in Node, o \in Node :
      LET tk == task[n]["cli"]
      IN  ( /\ Ended(n, "get")
            /\ o \in tk.authors
            /\ Linked(n, o)
            /\ \A m \in Node \ {n} : up[m] )
          => /\ tk.pc = "done"
             /\ tk.res.kind = "ok"
             /\ EncodeToString(Sha1(tk.res.val)) = tk.keyHex

\* C3: Put always succeeds.  Whatever became of the remote STOREs, a Put
\* that has returned gave the key without error, the local store holds the
\* bytes under that key and the key is in the origin set.
C3_PutSucceeds ==
    \A n \in Node :
      LET tk == task[n]["cli"]
      IN  Returned(n, "put") =>
            /\ tk.res.kind = "ok"
            /\ tk.res.key = keyFromData(tk.value).keyHex
            /\ loadLocal(valueStore[n], tk.res.key)
            /\ valueStore[n][tk.res.key] = tk.value
            /\ tk.res.key \in originKeys[n]

\* A Put of a non-empty value has returned on a node whose routing table
\* holds a closed peer that never received the value.
C3_Witness ==
    \E n \in Node :
      /\ Returned(n, "put")
      /\ task[n]["cli"].value # <<>>
      /\ task[n]["cli"].res.kind = "ok"
      /\ \E c \in task[n]["cli"].peers :
           /\ ~up[c]
           /\ ~loadLocal(valueStore[c], task[n]["cli"].res.key)

\* C4: a Get of a key that is not 2*IDLength hex characters returns a
\* validation error, whatever the state of the node.
C4_InvalidKeyRejected ==
    \A n \in Node :
      LET tk == task[n]["cli"]
      IN  (Returned(n, "get") /\ (~KeyLenOK(tk.keyHex) \/ ~DecodeOK(tk.keyHex)))
          => tk.res.kind = "invalid"

\* Node n is inside the lookup of Get.
InGet(n) ==
    /\ task[n]["cli"].op = "get"
    /\ task[n]["cli"].pc = "gv"

\* No node holds key k.
Unheld(k) == \A m \in Node : ~loadLocal(valueStore[m], k)

\* C5: a Get of a well-formed key that no node holds ends, whatever the
\* routing table and whichever RPCs are answered or time out; when it
\* leaves its lookup with the key still held by no node it returns "not
\* found", and none of its steps changes the value store.
C5_GetNotFound ==
    /\ \A n \in 1..MaxCallers :
         (InGet(n) /\ Unheld(task[n]["cli"].keyHex))
           ~> \/ Returned(n, "get") /\ task[n]["cli"].res.kind = "notfound"
              \/ ~Unheld(task[n]["cli"].keyHex)
    /\ [][\A n \in Node :
            (InGet(n) /\ Unheld(task[n]["cli"].keyHex)
                      /\ task'[n]["cli"] # task[n]["cli"])
              => /\ valueStore' = valueStore
                 /\ task'[n]["cli"].pc # "gv"
                      => /\ task'[n]["cli"].pc = "done"
                         /\ task'[n]["cli"].res.kind = "notfound"]_vars

\* A Get has returned "not found" on a node whose routing table holds a
\* closed peer.
C5_Witness ==
    \E n \in Node :
      /\ Returned(n, "get")
      /\ task[n]["cli"].res.kind = "notfound"
      /\ \E c \in Addresses(rt[n]) : ~up[c]

\* The running node a has returned from a Get of a key that node b had
\* put before, as its last call, with a non-empty value and with a STORE
\* sent to a by the replication of that Put.
AfterReplication(a, b) ==
    /\ up[a]
    /\ Returned(a, "get")
    /\ b \in task[a]["cli"].replicators

\* C6 as stated: after B.Put(v) has replicated, A.Get(key(v)) returns v with
\* B's contact as the responder.
C6_ResponderIsOrigin ==
    \A a \in Node, b \in Node :
      AfterReplication(a, b) =>
        /\ task[a]["cli"].res.kind = "ok"
        /\ EncodeToString(Sha1(task[a]["cli"].res.val)) = task[a]["cli"].keyHex
        /\ task[a]["cli"].res.from = Me(b)

\* C6 as the program behaves: after B.Put(v) has replicated, A holds v, so
\* A.Get(key(v)) is a local hit and returns v with A's own contact.
C6_ResponderIsSelf ==
    \A a \in Node, b \in Node :
      AfterReplication(a, b) =>
        /\ task[a]["cli"].res.kind = "ok"
        /\ EncodeToString(Sha1(task[a]["cli"].res.val)) = task[a]["cli"].keyHex
        /\ task[a]["cli"].res.val # <<>>
        /\ task[a]["cli"].res.from = Me(a)

\* The two-node scenario: node 2 joined through node 1 and put a value,
\* node 1 has got it; node 3 took no part.
C6_Witness ==
    /\ AfterReplication(1, 2)
    /\ Returned(2, "put")
    /\ task[1]["cli"].res.kind = "ok"
    /\ task[1]["cli"].res.val = task[2]["cli"].value
    /\ Addresses(rt[1]) = {2}
    /\ Addresses(rt[2]) = {1}
    /\ Addresses(rt[3]) = {}

\* Node n has returned from a Get that a remote responder answered.
RemoteHit(n) ==
    /\ Returned(n, "get")
    /\ task[n]["cli"].res.kind = "ok"
    /\ task[n]["cli"].res.from # Me(n)

\* C7: after a Get that succeeded through a remote responder the node's
\* store holds the value under the key; no step removes or changes a stored
\* entry; a FIND_VALUE_OK of a node that holds the key carries the stored
\* value; a Get of a key the node holds is a local hit.
C7_CachedOnGet ==
    /\ [](\A n \in Node :
            RemoteHit(n) =>
              /\ loadLocal(valueStore[n], task[n]["cli"].keyHex)
              /\ valueStore[n][task[n]["cli"].keyHex] = task[n]["cli"].res.val)
    /\ [][\A n \in Node :
            /\ \A m \in net' \ net :
                 ( /\ m.type = "FIND_VALUE_OK"
                   /\ m.src = n
                   /\ loadLocal(valueStore[n], m.key) )
                 => m.value = valueStore[n][m.key]
            /\ \A k \in DOMAIN valueStore[n] :
                 /\ k \in DOMAIN valueStore'[n]
                 /\ valueStore'[n][k] = valueStore[n][k]
            /\ ( /\ ops' = ops + 1
                 /\ task'[n]["cli"].op = "get"
                 /\ task'[n]["cli"] # task[n]["cli"]
                 /\ loadLocal(valueStore[n], task'[n]["cli"].keyHex) )
               => /\ task'[n]["cli"].pc = "done"
                  /\ task'[n]["cli"].res.kind = "ok"
                  /\ task'[n]["cli"].res.from = Me(n)
                  /\ task'[n]["cli"].res.val =
                       valueStore[n][task'[n]["cli"].keyHex]]_vars

\* A Get has returned the value with another node as the responder.
C7_Witness ==
    \E n \in Node :
      /\ RemoteHit(n)
      /\ task[n]["cli"].res.val = <<104>>
      /\ loadLocal(valueStore[n], task[n]["cli"].keyHex)

\* C8: when Put(b) has returned, every running contact of the origin's
\* routing table (all of them are among the bucketSize closest) holds b.
C8_ReplicatedOnReturn ==
    \A n \in Node :
      LET tk == task[n]["cli"]
      IN  Returned(n, "put") =>
            \A c \in tk.peers \ {n} :
              up[c] => /\ loadLocal(valueStore[c], tk.res.key)
                       /\ valueStore[c][tk.res.key] = tk.value

\* C9: eventual placement.  A key of the snapshot of a republish pass
\* reaches every peer the origin's routing table holds, unless the origin or
\* the peer stops.
C9_EventualPlacement ==
    \A n \in Node, k \in ValueKeys : \A c \in Node \ {n} :
      ( /\ task[n]["rep"].pc = "rp"
        /\ k \in task[n]["rep"].keys
        /\ c \in Addresses(rt[n]) )
      ~> ( \/ ~up[n]
           \/ ~up[c]
           \/ /\ loadLocal(valueStore[c], k)
              /\ loadLocal(valueStore[n], k)
              /\ valueStore[c][k] = valueStore[n][k] )

\* The key of the Put that node n is inside of, if any.
PutInProgress(n) ==
    IF task[n]["cli"].op = "put" /\ task[n]["cli"].pc \in {"lk", "st"}
    THEN {task[n]["cli"].keyHex}
    ELSE {}

\* C10: the origin set of a node holds the keys its Put calls returned and
\* the key of the Put it is inside of, nothing else; no step removes a key;
\* a republish pass works on, and sends STOREs for, keys of the origin set
\* only.
C10_OriginSet ==
    /\ [](\A n \in Node :
            /\ originKeys[n] = putKeys[n] \cup PutInProgress(n)
            /\ task[n]["rep"].keys \subseteq originKeys[n]
            /\ task[n]["rep"].pc \in {"lk", "st"}
                 => task[n]["rep"].keyHex \in originKeys[n]
            /\ \A p \in task[n]["rep"].pending : \A m \in net :
                 (m.id = p.id /\ m.type = "STORE") => m.key \in originKeys[n])
    /\ [][\A n \in Node : originKeys[n] \subseteq originKeys'[n]]_vars

\* A republish STORE is in flight while some node holds a key that is not
\* in its origin set.
C10_Witness ==
    /\ \E n \in Node : \E p \in task[n]["rep"].pending : \E m \in net :
         /\ m.id = p.id
         /\ m.type = "STORE"
         /\ m.key \in originKeys[n]
    /\ \E n \in Node : DOMAIN valueStore[n] \ originKeys[n] # {}


--------------------------------------------------------------------------
(* Copies in the value store *)

\* C11: the value store shares no buffer with a caller or a datagram: a
\* write to the buffer passed to Put, to the buffer returned by Get or to
\* the buffer of an inbound STORE, made after the call or the handler has
\* returned, changes no stored value.
C11_CopyIsolation ==
    [][(\E e \in ext, b \in Bytes : Mutate(e, 1, b)) => Stored' = Stored]_vars

\* For a stored key, the buffer passed to Put, a buffer returned by Get and
\* the buffer of a STORE have been written to and differ from the stored
\* value.
C11_Witness ==
    \A role \in {"put", "get", "store"} :
        \E e \in ext :
            /\ e.role = role
            /\ e.keyHex \in DOMAIN slices
            /\ heap[e.addr] # Stored[e.keyHex]
            /\ Stored[e.keyHex] = <<104>>

--------------------------------------------------------------------------
(* The routing table under AddContact *)

\* C12: in every reachable state the main list of every bucket holds at
\* most bucketSize contacts, for every interleaving of AddContact calls of
\* the reader and of an RPC goroutine, calls on a full bucket that overlap
\* during the probe included.
C12_BucketCapacity == WithinCapacity(table)

\* C13: no main list holds two entries with the same identifier, for every
\* interleaving of AddContact calls.
C13_MainListUnique == UniqueIDs(table)

\* C14: after any sequence of AddContact calls with any probe outcomes no
\* identifier is in the replacement cache and in the main list of a bucket.
C14_ReplacementDisjoint == ReplacementsApart(table)

\* C15: after any sequence of AddContact calls no main list and no
\* replacement cache holds a contact with the identifier of the owner.
C15_NoSelfEntry == InNoList(table, NodeId(Owner))

\* AddContact was called with the owner's contact, on a table with a full
\* bucket, and no call is in progress.
C15_Witness ==
    /\ \E i \in 1..Len(observed) : observed[i] = Me(Owner)
    /\ Len(observed) = MaxObserve
    /\ \A g \in Observers : obs[g] = <<>>
    /\ Len(table[0].list) = bucketSize

\* C16: when AddContact(c) runs alone on a bucket of bucketSize contacts
\* without c and the probe of the least-recently-seen contact fails, then
\* at its return that contact is gone, c is at the front, the other
\* bucketSize - 1 contacts are as they were and the bucket holds bucketSize
\* contacts.
C16_DeadLRUEvicted ==
    \A g \in Observers :
        EvictionDone(g) /\ BucketWasFull(g) /\ ~Top(g).alive =>
            LET f == Top(g)
                i == getBucketIndex(NodeId(Owner), f.contact.id)
                old == f.before[i].list
                new == table[i].list
            IN  /\ f.lru = old[Len(old)]
                /\ IndexOfID(new, f.lru.id) = 0
                /\ Len(new) = bucketSize
                /\ new = <<f.contact>> \o SubSeq(old, 1, bucketSize - 1)

C16_Witness ==
    \E g \in Observers : EvictionDone(g) /\ BucketWasFull(g) /\ ~Top(g).alive

\* C17: when AddContact(c) runs alone on a bucket of bucketSize contacts
\* without c and the probe of the least-recently-seen contact is answered,
\* then at its return that contact is at the front of the main list, c is
\* not in the main list and is in the replacement cache, and the bucket
\* holds bucketSize contacts.
C17_AliveLRUKept ==
    \A g \in Observers :
        EvictionDone(g) /\ BucketWasFull(g) /\ Top(g).alive =>
            LET f == Top(g)
                i == getBucketIndex(NodeId(Owner), f.contact.id)
                old == f.before[i].list
                new == table[i].list
            IN  /\ f.lru = old[Len(old)]
                /\ new[1] = f.lru
                /\ IndexOfID(new, f.contact.id) = 0
                /\ IndexOfID(table[i].repl, f.contact.id) # 0
                /\ Len(new) = bucketSize

\* The call returns with the replacement cache at its capacity.
C17_Witness ==
    \E g \in Observers :
        /\ EvictionDone(g)
        /\ BucketWasFull(g)
        /\ Top(g).alive
        /\ Len(table[0].repl) = replCap

\* C18: the reader never sends a request of its own and never waits on a
\* completion slot while it handles an inbound request.
C18_ReaderNeverProbes ==
    obs["reader"] # <<>> => Top("reader").pc \notin {"probe", "nested"}


--------------------------------------------------------------------------
(* Locks and the inflight table *)

\* C19: once the sending call of a request has returned, after a matching
\* response, after the timeout or after a send error, the inflight table
\* has no entry for its MsgID.
C19_InflightCleanup == returned \cap slots = {}

\* Calls have returned after a response, after a timeout and after a send
\* error.
C19_Witness ==
    \A how \in {"response", "timeout", "send error"} :
        \E id \in returned : <<id, how>> \in exits

\* C20: no goroutine sends a datagram or waits for a response while it
\* holds the routing-table lock, the inflight lock, the value-store lock or
\* the origin-set lock.
C20_NoLockAcrossIO ==
    \A g \in Goroutines :
        Busy(g, "send") \/ Busy(g, "wait") => held[g] = {}

\* The republisher is about to send a STORE while the reader is about to
\* send the eviction probe of AddContact.
C20_Witness ==
    /\ Busy("rep", "send")
    /\ Next1("rep").mode = "STORE"
    /\ Busy("reader", "send")
    /\ Next1("reader").mode = "PING"

--------------------------------------------------------------------------
(* Observation of senders *)

\* Node n takes datagram m: the reader runs the handler of a request, or
\* hands a response to the waiter of its MsgID.
Taken(n, m) ==
    \/ handlePing(n, m)
    \/ handleFindNode(n, m)
    \/ handleStore(n, m)
    \/ handleFindValue(n, m)
    \/ \E t \in Tasks : \E p \in task[n][t].pending :
          \/ RecvPong(n, t, p, m)
          \/ RecvFindNodeOK(n, t, p, m)
          \/ RecvFindValueOK(n, t, p, m)
          \/ RecvStoreOK(n, t, p, m)

\* C21: when a node has taken a well-formed inbound message of any kind,
\* request or response, the sender of the message is in its routing table
\* (the buckets have room).
C21_SenderObserved ==
    [][\A n \in Node, m \in net :
          Taken(n, m) /\ m.from # NoContact
              => m.from.addr \in Addresses(rt'[n])]_vars

C23_FailedPingAddsNothing ==
    /\ [][\A n \in Node, t \in Tasks :
            \A p \in task[n][t].pending :
               task[n][t].pc = "ping" /\ Timeout(n, t, p)
                  => /\ rt' = rt
                     /\ task'[n][t].pc # "ping"
                     /\ p.id \notin inflight'[n]]_vars
    /\ \A n \in Node :
          (task[n]["cli"].pc = "ping") ~> (task[n]["cli"].pc # "ping")

\* A Join through a closed peer has returned: the PING timed out, the
\* lookup found an empty table, and the table is still empty.
C23_Witness ==
    \E n \in Node, b \in Node :
        /\ b # n
        /\ ~up[b]
        /\ task[n]["cli"].op = "join"
        /\ task[n]["cli"].pc = "done"
        /\ Addresses(rt[n]) = {}
        /\ inflight[n] = {}

--------------------------------------------------------------------------
(* The node lookup *)

\* C24 as stated: in a lossless network where the table of A holds a peer
\* B whose table holds C, and the buckets of A have room, the table of A
\* holds C when A.LookupContact(C) has returned.
C24_LookupLearnsTarget ==
    look.pc = "done" /\ holder \in look.held
        => LookupTarget.addr \in Addresses(ltable)

\* C24: in a lossless network where B, whose table holds C, is among the
\* alpha contacts of A's table closest to C (the first batch), and the
\* buckets of A have room, the table of A holds C when A.LookupContact(C)
\* has returned; every FIND_NODE_OK reply leaves its responder and the
\* contacts it lists in the table of the requester.
C24_FirstBatchLearnsTarget ==
    /\ [](look.pc = "done" /\ holder \in look.first
             => LookupTarget.addr \in Addresses(ltable))
    /\ [][\A p \in look.pending :
            LookupReply(p, Knows(p), AllAddrs)
               => /\ p.addr \in Addresses(ltable')
                  /\ \A i \in 1..Len(Knows(p)) :
                        \/ Knows(p)[i] = Me(Owner)
                        \/ Knows(p)[i].addr \in Addresses(ltable')]_vars

\* The lookup has returned on a node that held more than alpha contacts,
\* the holder of the target was in the first batch, and the target is in
\* the table.
C24_Witness ==
    /\ look.pc = "done"
    /\ Cardinality(look.held) > alpha
    /\ holder \in look.first
    /\ LookupTarget.addr \in Addresses(ltable)

\* C25: LookupContact returns, whatever the table holds, whatever the peers
\* reply and whichever requests time out; on a node whose table is empty it
\* returns without having sent a request.
C25_LookupTerminates ==
    /\ (look.pc # "idle") ~> (look.pc = "done")
    /\ [](look.pc = "done" /\ look.held = {} /\ churn = 0 => look.sent = 0)

\* The lookup has returned on a node with an empty table.
C25_Witness ==
    /\ look.pc = "done"
    /\ look.held = {}
    /\ churn = 0
    /\ Addresses(ltable) = {}

\* C26: within one lookup the distances from the closest contact of the
\* table to the target, computed at the end of the successive rounds, never
\* increase, whatever other goroutines do to the table meanwhile.
C26_DistanceMonotone ==
    \A i \in 1..(Len(look.bests) - 1) : look.bests[i + 1] <= look.bests[i]

--------------------------------------------------------------------------
(* Shutdown *)

\* No caller of an RPC function is between its registration and its
\* return.
NoWaiter == \A w \in Waiters : rpc[w] \in {"none", "returned"}

\* C27: after Close is called, unless the process has ended by a panic,
\* the republisher returns, the reader returns, every caller that waits
\* for a response returns, and the inflight table is empty.
C27_ShutdownCompletes ==
    (closes > 0) ~> \/ crashed
                    \/ /\ republisherPc = "exited"
                       /\ readLoopPc = "exited"
                       /\ NoWaiter
                       /\ chans = {}

\* Close was called once while callers waited for responses; it has
\* returned, both goroutines have returned, the callers have returned and
\* inflight is empty.
C27_Witness ==
    /\ ~crashed
    /\ closes = 1
    /\ closer = "returned"
    /\ atClose = Waiters
    /\ \A w \in Waiters : rpc[w] = "returned"
    /\ republisherPc = "exited"
    /\ readLoopPc = "exited"
    /\ readStopped
    /\ chans = {}

\* C28: Close may be called again on a node that is closed: every call
\* returns, none ends the process.
C28_RepeatedCloseReturns == ~crashed

--------------------------------------------------------------------------
(* The keys of the value store *)

\* C29: every key of a value store is 2*IDLength hexadecimal characters;
\* a STORE with any other key is not written.
C29_StoredKeysWellFormed ==
    \A n \in Node : \A k \in DOMAIN valueStore[n] :
        KeyLenOK(k) /\ DecodeOK(k)

--------------------------------------------------------------------------
(* Path caching *)

\* C30: when a round of Get has brought the value from a responder, Get
\* sends exactly one STORE, to the queried contact closest to the key that
\* is neither the responder nor the node itself, and goes on to return the
\* value; when there is no such contact it sends no STORE and returns the
\* value with the responder.
C30_PathCaching ==
    [][\A n \in Node :
          GetStep(n) /\ task[n]["cli"].inRound /\ task[n]["cli"].got.has
          => LET tk == task[n]["cli"]
                 others == {i \in 1..Len(tk.queried) :
                              tk.queried[i].addr \notin
                                 {tk.got.src.addr, Me(n).addr}}
                 sent == net' \ net
             IN  IF others = {}
                 THEN /\ sent = {}
                      /\ task'[n]["cli"].pc = "done"
                      /\ task'[n]["cli"].res.kind = "ok"
                      /\ task'[n]["cli"].res.val = tk.got.val
                      /\ task'[n]["cli"].res.from = tk.got.src
                 ELSE /\ task'[n]["cli"].pc = "pcw"
                      /\ \E i \in others :
                           /\ \A j \in others :
                                ~Less(CalcDistance(tk.queried[j].id, tk.target),
                                      CalcDistance(tk.queried[i].id, tk.target))
                           /\ Cardinality(sent) = 1
                           /\ \A m \in sent :
                                /\ m.type = "STORE"
                                /\ m.to = tk.queried[i].addr
                                /\ m.key = tk.keyHex
                                /\ m.value = tk.got.val]_vars

--------------------------------------------------------------------------
(* The rounds of the lookups *)

\* C31: once a response of a round of Get has brought a value, Get no
\* longer waits for the other requests of the round, and the value and the
\* responder it returns are those of that first response.
C31_FirstValueWins ==
    [][\A n \in Node :
          LET old == task[n]["cli"]
              new == task'[n]["cli"]
          IN  old.pc = "gv" /\ new.pc = "gv" /\ new.got.has
                 => /\ new.pending = {}
                    /\ old.got.has => new.got = old.got]_vars

\* The distances computed at the end of rounds 1..k strictly decrease.
Decreasing(k) ==
    \A i \in 1..(k - 1) : look.bests[i + 1] < look.bests[i]

\* C32: a lookup starts a further round only while the closest contact of
\* the table at the end of the round is strictly closer to the target than
\* at the end of the round before; it stops at the first round where the
\* distance fails to strictly decrease, or earlier when no addressable
\* unvisited contact remains; the distance is computed only when every
\* request of the round has ended.
C32_ConvergenceRule ==
    /\ [](/\ look.pc \in {"batch", "wait"} => Decreasing(Len(look.bests))
          /\ look.pc = "done"
               => /\ Decreasing(Len(look.bests) - 1)
                  /\ \/ ~Decreasing(Len(look.bests))
                     \/ Addresses(ltable) \ {NoAddr} \subseteq look.visited)
    /\ [][look.bests' # look.bests => look.pending = {}]_vars

\* A lookup of three rounds has stopped because the distance after the
\* third round was not less than after the second, with contacts in the
\* table it has not asked.
C32_Witness ==
    /\ look.pc = "done"
    /\ Len(look.bests) = 3
    /\ look.bests[2] < look.bests[1]
    /\ look.bests[3] >= look.bests[2]
    /\ ~(Addresses(ltable) \ {NoAddr} \subseteq look.visited)

\* C33: a round dispatches at most alpha requests, each to a contact with
\* an address that no earlier request of this lookup went to; over the
\* whole lookup every address gets at most one request.
C33_BatchRule ==
    /\ [](/\ Cardinality(look.pending) <= alpha
          /\ NoAddr \notin look.visited
          /\ \A p \in look.pending : p.addr # NoAddr /\ p.addr \in look.visited
          /\ look.sent = Cardinality(look.visited))
    /\ [][look.visited' # look.visited
            => /\ look.pending = {}
               /\ look.visited \subseteq look.visited'
               /\ {p.addr : p \in look.pending'} = look.visited' \ look.visited
               /\ Cardinality(look.pending') = look.sent' - look.sent
               /\ look.sent' - look.sent \in 1..alpha]_vars

\* After a first round of alpha requests a second round has been
\* dispatched from a table that holds a contact without an address: the
\* round took every unvisited contact with an address, fewer than alpha.
C33_Witness ==
    /\ look.pc = "wait"
    /\ Cardinality(look.first) = alpha
    /\ look.sent > alpha
    /\ NoAddr \in Addresses(ltable)
    /\ Cardinality(look.pending) \in 1..(alpha - 1)
    /\ Addresses(ltable) \ {NoAddr} \subseteq look.visited

--------------------------------------------------------------------------
(* The routing table's methods *)

\* Every contact of table t in ascending distance to target, cut to count.
ClosestOfAll(t, target, count) ==
    ApplyTo(SortByDistance(AllContacts(t, 0), target), LAMBDA sorted :
      SubSeq(sorted, 1, IF count > Len(sorted) THEN Len(sorted) ELSE count))

\* C34: FindClosestContacts(target, n) returns the n contacts of the table
\* closest to target in ascending distance, min(n, size of the table) of
\* them: what sorting every contact of the table and cutting to n gives.
C34_ClosestOfTable ==
    called.op = "FindClosestContacts"
       => called.result = ClosestOfAll(called.before, called.target,
                                       called.count)

--------------------------------------------------------------------------
(* The reader's hand-over of responses *)

\* C35: a response whose MsgID has no entry in inflight is dropped: the
\* step of the reader that takes it leaves inflight, the value store, the
\* callers of the RPC functions and the results of the RPC functions as
\* they are and sends nothing.
C35_LateResponseDropped ==
    [][\A d \in inbox :
          d.kind = "response" /\ d.id \notin DOMAIN chanOf
             /\ inbox' = inbox \ {d}
          => UNCHANGED <<chanOf, kvStore, rpcOf, outcome, repliesSent>>]_vars

\* The RPC function with MsgID 1 has returned by its timer, its response
\* was read afterwards and found no waiter, while another RPC waits and the
\* value store holds a value.
C35_Witness ==
    /\ <<1, NoReply>> \in outcome
    /\ <<Response(1, 1), "no waiter">> \in discarded
    /\ \E w \in Callers : rpcOf[w].pc = "waiting"
    /\ kvStore # EmptyStore

\* C36: with several RPCs outstanding, a response is handed only to the
\* caller whose request carried its MsgID, a caller receives at most one
\* response, and the reader can always take the next response, a
\* duplicate included.
C36_ResponsesPaired ==
    /\ \A i \in DOMAIN chanOf :
          /\ Len(chanOf[i]) <= 1
          /\ \A j \in 1..Len(chanOf[i]) : chanOf[i][j].id = i
    /\ \A w \in Callers :
          rpcOf[w].got # NoReply
             => /\ rpcOf[w].got.id = rpcOf[w].id
                /\ rpcOf[w].pc \in {"got", "returned"}
    /\ \A o \in outcome : o[2] # NoReply => o[2].id = o[1]
    /\ \A o, q \in outcome : o[1] = q[1] => o = q
    /\ \A d \in inbox : d.kind = "response" => ENABLED ReadResponse(d)

\* Two RPCs were outstanding at the same time; each caller has its own
\* response, and the duplicate of one of them was discarded at the full
\* channel.
C36_Witness ==
    /\ \A w \in Callers : rpcOf[w].pc = "got"
    /\ rpcOf[1].got.id # rpcOf[2].got.id
    /\ \E d \in {Response(i, c) : i \in 1..MaxIds, c \in 1..MaxCopies} :
          <<d, "channel full">> \in discarded

--------------------------------------------------------------------------
(* Contacts seen again *)

\* The identifiers of list l.
IdsOf(l) == {l[i].id : i \in 1..Len(l)}

\* Contact c is in its bucket of table t.
Present(t, c) ==
    IndexOfID(t[getBucketIndex(NodeId(Owner), c.id)].list, c.id) # 0

\* C37: AddContact of a contact whose NodeId is in its bucket moves the
\* entry to the front of the bucket, leaves the size and the members of
\* every bucket as they are and probes nobody, in a full bucket too: the
\* call is done after phase 1, and no call that has reached the probe was
\* made with a contact that was present.
C37_SeenAgainMovesToFront ==
    /\ [][\A g \in Observers :
            /\ obs[g] # <<>>
            /\ Top(g).pc = "lock1"
            /\ mu = "none" /\ mu' = g
            /\ Present(table, Top(g).contact)
            => /\ obs'[g][1].pc = "done"
               /\ Head(table'[getBucketIndex(NodeId(Owner),
                                             Top(g).contact.id)].list).id
                    = Top(g).contact.id
               /\ \A i \in DOMAIN table :
                     /\ Len(table'[i].list) = Len(table[i].list)
                     /\ IdsOf(table'[i].list) = IdsOf(table[i].list)
                     /\ table'[i].repl = table[i].repl]_vars
    /\ [](\A g \in Observers : \A i \in 1..Len(obs[g]) :
             obs[g][i].pc \in {"full", "probe", "nested", "lock3"}
                => ~Present(obs[g][i].before, obs[g][i].contact))

\* AddContact of the oldest contact of a full bucket is done after phase
\* 1: the contact is at the front and the bucket is still full.
C37_Witness ==
    \E g \in Observers :
       /\ obs[g] # <<>>
       /\ Top(g).pc = "done"
       /\ Top(g).contact = Far(1)
       /\ Len(Top(g).before[0].list) = bucketSize
       /\ Top(g).before[0].list[bucketSize].id = Far(1).id
       /\ Len(table[0].list) = bucketSize
       /\ Head(table[0].list).id = Far(1).id

\* The entry of table t with the identifier of contact c.
EntryOf(t, c) ==
    LET l == t[getBucketIndex(NodeId(Owner), c.id)].list
    IN  l[IndexOfID(l, c.id)]

\* C38: after AddContact of a contact whose NodeId is in the table, given
\* with an address, the entry of that NodeId carries the address the
\* contact was given with.
C38_AddressRefreshed ==
    /\ called.op = "AddContact"
    /\ called.contact.addr # NoAddr
    /\ Present(called.before, called.contact)
    => EntryOf(rtab, called.contact).addr = called.contact.addr

--------------------------------------------------------------------------
(* Content addressing *)

\* C39: every key of a value store is the hex SHA-1 of the value stored
\* under it, whoever sent the STORE that wrote it, and the value a Get
\* returns has the key the Get was called with.
C39_ContentAddressed ==
    /\ \A n \in Node : \A k \in DOMAIN valueStore[n] :
          k = keyFromData(valueStore[n][k]).keyHex
    /\ \A n \in Node :
          Returned(n, "get") /\ task[n]["cli"].res.kind = "ok"
             => task[n]["cli"].keyHex
                  = keyFromData(task[n]["cli"].res.val).keyHex

--------------------------------------------------------------------------
(* The identity of contacts *)

\* The contacts in the routing table of node n.
ContactsOf(n) ==
    LET all == AllContacts(rt[n], 0) IN {all[i] : i \in 1..Len(all)}

\* C40: every contact a routing table holds at the address of a node
\* carries the NodeId of that node, also when the caller of the PING gave
\* a placeholder NodeId, and no table holds two contacts with different
\* NodeIds for one address.
C40_ContactIdentity ==
    \A n \in Node :
       /\ \A c \in ContactsOf(n) : c.addr \in Node => c.id = NodeId(c.addr)
       /\ \A c, d \in ContactsOf(n) : c.addr = d.addr => c.id = d.id

====
